---- MODULE Spec2Model ----
(***************************************************************************)
(* A model of the benchix kernel core: the bitmap physical memory manager, *)
(* the per-process page tables with fork's clone, the process table, the   *)
(* file descriptors, the device filesystem's console wait slot and the     *)
(* scheduler with its ready queue.                                         *)
(*                                                                         *)
(* Virtual addresses are scaled down: a page table has EntriesPerTable     *)
(* entries instead of 512, so that addresses fit 32-bit integers.          *)
(* The lower half of the top-level table is user space, as in the kernel.  *)
(***************************************************************************)
EXTENDS Integers, Sequences, FiniteSets, TLC

\* ---------------------------------------------------------------- constants

PageSize == 4096
WordBits == 64
Levels == 4
StackLen == 16384
StackTopGap == 65536
QueueCap == 100

\* ---------------------------------------------------------------- bounds

EntriesPerTable == 4
MaxProcs == 2
MaxKeys == 2
MaxLine == 3
MaxPath == 5
MaxHeld == 4
MaxBrkPages == 1
MaxDesc == 2
MaxOffset == 4
HighBits == 2

\* the absent value of an Option of a frame, a thread or a pid
None == 0 - 1

VARIABLES
    bitmap,     \* PhysicalMemoryManager.bitmap: word index -> set of set bits
    pmmOk,      \* FALSE when PhysicalMemoryManager::new panicked
    regions,    \* the bootloader's memory map the bitmap was built from
    held,       \* frames handed to a caller of allocate_frame and not given back
    lastFrame,  \* result of the last allocate_frame call of a PMM client
    ptab,       \* physical memory read as page tables: frame -> index -> entry
    data,       \* physical memory read as page contents: frame -> two halves
    procs,      \* PROCESS_TABLE: pid -> UserProcess
    nextPid,    \* NEXT_PID
    thr,        \* the threads: tid -> Thread (with the place it is suspended at)
    nextTid,    \* NEXT_TID
    ready,      \* READY
    current,    \* PerCpu.current_thread
    waiting,    \* WAITING_THREAD
    scancodes,  \* SCANCODE_QUEUE
    pending,    \* Devfs.pending_input
    desc,       \* the FileDescriptor objects: id -> descriptor
    halted,     \* "no", or why the kernel stopped: "panic" or "spin"
    keys,       \* number of keyboard interrupts taken so far
    cpu,        \* the CPU: CR3, the TSS privilege stack, PerCpu.next_thread
    lastOp      \* the last operation performed and its result

pmmVars == <<pmmOk, regions, held, lastFrame>>
memVars == <<ptab, data, bitmap, procs>>
schedVars == <<thr, nextTid, ready, current, cpu>>
devVars == <<scancodes, pending, keys>>
vars == <<bitmap, pmmOk, regions, held, lastFrame, ptab, data, procs, nextPid,
          thr, nextTid, ready, current, waiting, scancodes, pending, desc,
          halted, keys, cpu, lastOp>>

\* ---------------------------------------------------------------- helpers

Min(a, b) == IF a < b THEN a ELSE b
Max(a, b) == IF a > b THEN a ELSE b
SetMin(S) == CHOOSE x \in S : \A y \in S : x <= y
SetMax(S) == CHOOSE x \in S : \A y \in S : x >= y
Range(s) == {s[i] : i \in 1..Len(s)}

RECURSIVE Pow(_, _)
Pow(b, n) == IF n = 0 THEN 1 ELSE b * Pow(b, n - 1)

\* F applied to the value of e: e is evaluated once, however often F uses it
Then(e, F(_)) == CHOOSE y \in {F(x) : x \in {e}} : TRUE

\* ---------------------------------------------------------------- PMM

\* PhysFrame::containing_address
FrameOf(addr) == addr \div PageSize

\* frames of PhysFrame::range_inclusive(containing(start), containing(end - 1))
RegionFrames(r) == FrameOf(r.start)..FrameOf(r.end - 1)

\* set_frame: bitmap[addr / (4096 * 64)] |= 1 << (addr / 4096) % 64
set_frame(bm, f) ==
    [bm EXCEPT ![f \div WordBits] = @ \cup {f % WordBits}]

\* clear_frame: bitmap[addr / (4096 * 64)] &= !(1 << (addr / 4096) % 64)
clear_frame(bm, f) ==
    [bm EXCEPT ![f \div WordBits] = @ \ {f % WordBits}]

FrameUsed(bm, f) == (f % WordBits) \in bm[f \div WordBits]

\* the highest clear bit of a word instead of the lowest
leading_clear(w) == SetMax((0..WordBits - 1) \ w)

\* u64::trailing_ones of a word that is not all ones
trailing_ones(w) == SetMin((0..WordBits - 1) \ w)

\* the words of the bitmap that are not u64::MAX
NonFullWords(bm) == {i \in DOMAIN bm : bm[i] # 0..(WordBits - 1)}

\* allocate_frame without the set_frame
allocate_frame_unmarked(bm) ==
    IF NonFullWords(bm) = {}
    THEN [frame |-> None, bitmap |-> bm]
    ELSE LET idx == SetMin(NonFullWords(bm))
         IN [frame |-> idx * WordBits + trailing_ones(bm[idx]), bitmap |-> bm]

\* allocate_frame: the first word that is not full, its lowest clear bit; the
\* frame is marked used before it is returned
allocate_frame(bm) ==
    IF NonFullWords(bm) = {}
    THEN [frame |-> None, bitmap |-> bm]
    ELSE LET idx == SetMin(NonFullWords(bm))
             f == idx * WordBits + trailing_ones(bm[idx])
         IN [frame |-> f, bitmap |-> set_frame(bm, f)]

\* deallocate_frame
deallocate_frame(bm, f) == clear_frame(bm, f)

\* PhysicalMemoryManager::new over a memory map (a sequence of regions with
\* byte bounds). ok is FALSE where the constructor panics: no usable region
\* can hold the bitmap, or set_frame indexes past the end of the bitmap.
PmmNew(rs) ==
    LET highest == SetMax({rs[i].end : i \in 1..Len(rs)})
        region_size == (highest + PageSize * 8 - 1) \div (PageSize * 8)
        nwords == region_size \div 8
        fits == {i \in 1..Len(rs) :
                    rs[i].usable /\ rs[i].end - rs[i].start >= region_size}
        bidx == SetMin(fits)
        marked == UNION ({RegionFrames(rs[bidx])} \cup
                    {RegionFrames(rs[i]) : i \in {j \in 1..Len(rs) : ~rs[j].usable}})
    IN  IF fits = {} \/ \E f \in marked : f \div WordBits >= nwords
        THEN [ok |-> FALSE, bitmap |-> <<>>, bitmap_region |-> 0]
        ELSE [ok |-> TRUE,
              bitmap |-> [w \in 0..nwords - 1 |->
                            {f % WordBits : f \in {g \in marked : g \div WordBits = w}}],
              bitmap_region |-> bidx]

\* ---------------------------------------------------------------- paging

\* the lower half of the top-level table is user space (256 of 512 entries)
UserTop == EntriesPerTable \div 2
NumPages == Pow(EntriesPerTable, Levels)
UserEnd == UserTop * Pow(EntriesPerTable, Levels - 1) * PageSize
AddrEnd == NumPages * PageSize

\* A 64-bit word has bits above those an address translation uses (bits 48 to
\* 63 of the machine); the model keeps HighBits of them. UserEnd is the end of
\* the lower canonical half, SignBit is 1 << 63.
WordEnd == AddrEnd * Pow(2, HighBits)
SignBit == WordEnd \div 2

\* the high bits are copies of the top translated bit
Canonical(a) == a < UserEnd \/ a >= WordEnd - UserEnd

\* VirtAddr::new and VirtAddr::from_ptr of the x86_64 crate: the address, or
\* None where the constructor panics. A word that is not canonical panics;
\* one whose high bits are all zero with the top translated bit set panics
\* in the newer versions of the crate and is sign-extended by the older ones.
VirtAddrNew(a) ==
    IF Canonical(a) THEN {a}
    ELSE IF a < AddrEnd THEN {None, a + (WordEnd - AddrEnd)}
    ELSE {None}

\* check_addr of a VirtAddr: bit 63 clear
check_addr(addr) == addr < SignBit

\* check_addr(VirtAddr::from_ptr(p)): "ok", "fault" when bit 63 is set, or
\* "panic" where the constructor of the address panics
CheckPtr(p) ==
    {IF v = None THEN "panic" ELSE IF check_addr(v) THEN "ok" ELSE "fault" :
        v \in VirtAddrNew(p)}

\* check_buffer: the start passes and then the end, start + len computed in
\* 64 bits, passes
check_buffer(buf, count) ==
    UNION {IF o = "ok" THEN CheckPtr((buf + count) % WordEnd) ELSE {o} :
             o \in CheckPtr(buf)}

\* slice::from_raw_parts_mut(buf, count) followed by check_buffer. A null
\* pointer or a length above isize::MAX is undefined behaviour: a build with
\* the library's precondition checks panics, one without goes on.
UserSlice(buf, count) ==
    IF buf = 0 \/ count >= SignBit
    THEN {"panic"} \cup check_buffer(buf, count)
    ELSE check_buffer(buf, count)

\* Page::containing_address
PageOf(addr) == addr \div PageSize

\* the index of a page into the table of a level (p4_index .. p1_index)
Idx(page, lvl) == (page \div Pow(EntriesPerTable, lvl - 1)) % EntriesPerTable

EmptyTable == [i \in {} |-> 0]

ParentFlags(flags) == flags \cap {"P", "W", "U"}

\* Mapper::map_to below a table of level lvl: missing tables are allocated
\* from the PMM and zeroed, present ones get the parent flags or-ed in; an
\* already mapped page is an error that keeps what the walk did so far, and
\* so is a PMM without a frame for a table (oom).
RECURSIVE MapWalk(_, _, _, _, _, _, _)
MapWalk(pt, bm, t, page, lvl, frame, flags) ==
    LET i == Idx(page, lvl) IN
    IF lvl = 1
    THEN IF i \in DOMAIN pt[t]
         THEN [ok |-> FALSE, oom |-> FALSE, ptab |-> pt, bitmap |-> bm]
         ELSE [ok |-> TRUE, oom |-> FALSE, bitmap |-> bm,
               ptab |-> [pt EXCEPT ![t] = (i :> [addr |-> frame, flags |-> flags]) @@ @]]
    ELSE IF i \in DOMAIN pt[t]
         THEN MapWalk([pt EXCEPT ![t][i].flags = @ \cup ParentFlags(flags)],
                      bm, pt[t][i].addr, page, lvl - 1, frame, flags)
         ELSE LET a == allocate_frame(bm) IN
              IF a.frame = None
              THEN [ok |-> FALSE, oom |-> TRUE, ptab |-> pt, bitmap |-> bm]
              ELSE MapWalk([pt EXCEPT
                              ![t] = (i :> [addr |-> a.frame,
                                            flags |-> ParentFlags(flags)]) @@ @,
                              ![a.frame] = EmptyTable],
                           a.bitmap, a.frame, page, lvl - 1, frame, flags)

map_to(pt, bm, root, page, frame, flags) ==
    MapWalk(pt, bm, root, page, Levels, frame, flags)

\* the table of level lvl that a walk from the top-level table reaches for a
\* page, or None when an entry on the way is unused
RECURSIVE TableAt(_, _, _, _, _)
TableAt(pt, t, page, from, lvl) ==
    IF from = lvl THEN t
    ELSE IF Idx(page, from) \in DOMAIN pt[t]
         THEN TableAt(pt, pt[t][Idx(page, from)].addr, page, from - 1, lvl)
         ELSE None

\* the flags the walk to a page meets at every level, leaf included
RECURSIVE WalkFlags(_, _, _, _)
WalkFlags(pt, t, page, lvl) ==
    LET i == Idx(page, lvl) IN
    IF i \notin DOMAIN pt[t] THEN <<>>
    ELSE IF lvl = 1 THEN <<pt[t][i].flags>>
    ELSE LET rest == WalkFlags(pt, pt[t][i].addr, page, lvl - 1) IN
         IF rest = <<>> THEN <<>> ELSE <<pt[t][i].flags>> \o rest

\* Mapper::translate: is the page mapped, and the frame of its leaf entry
Mapped(pt, root, page) ==
    LET l1 == TableAt(pt, root, page, Levels, 1) IN
    l1 # None /\ Idx(page, 1) \in DOMAIN pt[l1]

FrameAt(pt, root, page) ==
    pt[TableAt(pt, root, page, Levels, 1)][Idx(page, 1)].addr

\* what the MMU grants user mode: the flag is set at every level of the walk
Grants(pt, root, page, flag) ==
    LET fl == WalkFlags(pt, root, page, Levels) IN
    fl # <<>> /\ \A k \in 1..Len(fl) : flag \in fl[k]

\* Mapper::unmap: the leaf entry is cleared and its frame returned
unmap(pt, root, page) ==
    LET l1 == TableAt(pt, root, page, Levels, 1)
        i == Idx(page, 1) IN
    IF l1 = None \/ i \notin DOMAIN pt[l1]
    THEN [ok |-> FALSE, ptab |-> pt, frame |-> None]
    ELSE [ok |-> TRUE, frame |-> pt[l1][i].addr,
          ptab |-> [pt EXCEPT ![l1] = [j \in (DOMAIN @) \ {i} |-> @[j]]]]

\* the pages of a half-open or inclusive range of pages
PageRangeInclusive(a, b) == a..b
PageRange(a, b) == a..(b - 1)

\* ---------------------------------------------------------------- processes

\* a page's contents are kept as two halves of HalfPage bytes each
HalfPage == PageSize \div 2

\* the fixed top of the initial user stack, 0x10000 below the end of user space
StackTop == UserEnd - StackTopGap

\* the frames whose bit is clear
FreeFrames(bm) ==
    UNION {{w * WordBits + b : b \in (0..(WordBits - 1)) \ bm[w]} : w \in DOMAIN bm}

\* the memory a process operation works on
MemState == [ptab |-> ptab, data |-> data, bitmap |-> bitmap, procs |-> procs,
             ok |-> TRUE, oom |-> FALSE, pmm |-> FALSE]

Root(ps, pid) == ps[pid].cr3_frame

PushFrame(ps, pid, f) == [ps EXCEPT ![pid].frames = Append(@, f)]

\* In a memory state pmm says that the mutex of the PMM is held: the guard of
\* allocate_user_page and unmap_page lives to the end of the function, a
\* panic inside it leaves the mutex taken.
\* allocate_user_page: a frame from the PMM, mapped present, writable and
\* user-accessible (plus the given flags) and recorded in the frame list.
\* ok is FALSE where the expect or the unwrap panics, oom is TRUE when it
\* panics because the PMM has no frame.
allocate_user_page(st, pid, page, flags) ==
    Then(allocate_frame(st.bitmap), LAMBDA a :
      IF a.frame = None THEN [st EXCEPT !.ok = FALSE, !.oom = TRUE, !.pmm = TRUE]
      ELSE Then(map_to(st.ptab, a.bitmap, Root(st.procs, pid), page, a.frame,
                       {"P", "W", "U"} \cup flags),
                LAMBDA m :
                  IF ~m.ok
                  THEN [st EXCEPT !.ok = FALSE, !.oom = m.oom, !.pmm = TRUE,
                                  !.ptab = m.ptab, !.bitmap = m.bitmap]
                  ELSE [st EXCEPT !.ptab = m.ptab, !.bitmap = m.bitmap,
                                  !.procs = PushFrame(@, pid, a.frame),
                                  !.pmm = FALSE]))

RECURSIVE AllocUserPages(_, _, _, _)
AllocUserPages(st, pid, pages, flags) ==
    IF pages = {} \/ ~st.ok THEN st
    ELSE Then(allocate_user_page(st, pid, SetMin(pages), flags),
              LAMBDA s : AllocUserPages(s, pid, pages \ {SetMin(pages)}, flags))

\* Vec::swap_remove of the first position holding f
SwapRemove(s, f) ==
    LET pos == SetMin({i \in 1..Len(s) : s[i] = f})
        last == s[Len(s)] IN
    IF pos = Len(s) THEN SubSeq(s, 1, Len(s) - 1)
    ELSE [i \in 1..(Len(s) - 1) |-> IF i = pos THEN last ELSE s[i]]

\* unmap_page without the swap_remove: the frame is freed and stays listed
unmap_page_listed(st, pid, page) ==
    LET u == unmap(st.ptab, Root(st.procs, pid), page) IN
    IF ~u.ok THEN [st EXCEPT !.ok = FALSE]
    ELSE [st EXCEPT !.ptab = u.ptab, !.bitmap = deallocate_frame(@, u.frame)]

\* unmap_page without the unmap: the frame is freed and stays mapped
unmap_page_mapped(st, pid, page) ==
    LET u == unmap(st.ptab, Root(st.procs, pid), page) IN
    IF ~u.ok THEN [st EXCEPT !.ok = FALSE]
    ELSE [st EXCEPT !.procs[pid].frames = SwapRemove(@, u.frame),
                    !.bitmap = deallocate_frame(@, u.frame)]

\* unmap_page: the page is unmapped, its frame leaves the frame list and goes
\* back to the PMM. ok is FALSE where an unwrap panics.
unmap_page(st, pid, page) ==
    LET u == unmap(st.ptab, Root(st.procs, pid), page) IN
    IF ~u.ok THEN [st EXCEPT !.ok = FALSE, !.pmm = TRUE]
    ELSE IF u.frame \notin Range(st.procs[pid].frames)
         THEN [st EXCEPT !.ok = FALSE, !.ptab = u.ptab, !.pmm = TRUE]
         ELSE [st EXCEPT !.ptab = u.ptab,
                         !.procs[pid].frames = SwapRemove(@, u.frame),
                         !.bitmap = deallocate_frame(@, u.frame),
                         !.pmm = FALSE]

RECURSIVE UnmapPages(_, _, _)
UnmapPages(st, pid, pages) ==
    IF pages = {} \/ ~st.ok THEN st
    ELSE Then(unmap_page(st, pid, SetMin(pages)),
              LAMBDA s : UnmapPages(s, pid, pages \ {SetMin(pages)}))

\* fork_page_table: a new table for this level; entries that are present and
\* user-accessible (below the top level, or in its lower half) are recursed
\* into, or at the last level copied into a new frame; every other present
\* entry is cloned as it is. st.frames collects the frames allocated.
RECURSIVE fork_page_table(_, _, _)
RECURSIVE ForkEntries(_, _, _, _, _)
ForkEntries(st, src, dst, lvl, idxs) ==
    IF idxs = {} \/ ~st.ok THEN st
    ELSE
      LET i == SetMin(idxs)
          parent == st.ptab[src][i]
          rest == idxs \ {i} IN
      IF "P" \notin parent.flags THEN ForkEntries(st, src, dst, lvl, rest)
      ELSE IF "U" \in parent.flags /\ (i < UserTop \/ lvl < Levels)
      THEN IF lvl > 1
           THEN Then(fork_page_table(st, parent.addr, lvl - 1), LAMBDA r :
                  IF ~r.ok THEN r
                  ELSE Then([r EXCEPT !.ptab[dst] =
                               (i :> [addr |-> r.frame, flags |-> parent.flags]) @@ @],
                            LAMBDA s : ForkEntries(s, src, dst, lvl, rest)))
           ELSE Then(allocate_frame(st.bitmap), LAMBDA a :
                  IF a.frame = None THEN [st EXCEPT !.ok = FALSE, !.oom = TRUE]
                  ELSE Then([st EXCEPT
                               !.bitmap = a.bitmap,
                               !.frames = Append(@, a.frame),
                               !.data[a.frame] = st.data[parent.addr],
                               !.ptab[dst] =
                                 (i :> [addr |-> a.frame, flags |-> parent.flags]) @@ @],
                            LAMBDA s : ForkEntries(s, src, dst, lvl, rest)))
      ELSE Then([st EXCEPT !.ptab[dst] = (i :> parent) @@ @],
                LAMBDA s : ForkEntries(s, src, dst, lvl, rest))

fork_page_table(st, src, lvl) ==
    Then(allocate_frame(st.bitmap), LAMBDA a :
      IF a.frame = None THEN [st EXCEPT !.ok = FALSE, !.oom = TRUE]
      ELSE Then([st EXCEPT !.bitmap = a.bitmap,
                           !.frames = Append(@, a.frame),
                           !.ptab[a.frame] = EmptyTable],
                LAMBDA st1 :
                  [ForkEntries(st1, src, a.frame, lvl, DOMAIN st.ptab[src])
                     EXCEPT !.frame = a.frame]))

\* ---------------------------------------------------------------- execve

PhEntSize == 56

\* The files of the ramdisk that are given to execve. An image is kept as its
\* header fields, its program headers and its bytes in chunks of HalfPage
\* (a chunk is named by a number).
Loadable(flags, vaddr, offset, filesz, memsz) ==
    [type |-> 1, flags |-> flags, vaddr |-> vaddr, offset |-> offset,
     filesz |-> filesz, memsz |-> memsz]

HiddenBase == Pow(EntriesPerTable, 2) * PageSize

Binaries ==
    [init |->
        [ident_ok |-> TRUE, phentsize |-> PhEntSize, entry |-> PageSize,
         len |-> 3 * HalfPage, image |-> <<11, 12, 13>>,
         headers |-> <<Loadable({"R", "W", "X"}, PageSize, HalfPage, PageSize,
                                PageSize + HalfPage)>>],
     hidden |->
        [ident_ok |-> TRUE, phentsize |-> PhEntSize, entry |-> PageSize,
         len |-> 3 * HalfPage, image |-> <<21, 22, 23>>,
         headers |-> <<Loadable({"R", "X"}, PageSize, HalfPage, HalfPage, HalfPage),
                       Loadable({"W"}, HiddenBase, PageSize, HalfPage, HalfPage)>>],
     bad |->
        [ident_ok |-> FALSE, phentsize |-> PhEntSize, entry |-> 0,
         len |-> HalfPage, image |-> <<31>>, headers |-> <<>>],
     small |->
        [ident_ok |-> TRUE, phentsize |-> PhEntSize - 1, entry |-> PageSize,
         len |-> HalfPage, image |-> <<41>>,
         headers |-> <<Loadable({"R", "W"}, PageSize, 0, HalfPage, HalfPage)>>],
     text |->
        [ident_ok |-> FALSE, phentsize |-> 0, entry |-> 0,
         len |-> 3, image |-> <<>>, headers |-> <<>>],
     wide |->
        [ident_ok |-> TRUE, phentsize |-> PhEntSize, entry |-> PageSize,
         len |-> 4 * HalfPage, image |-> <<51, 52, 53, 54>>,
         headers |-> <<Loadable({"R", "X"}, PageSize, 0, 2 * PageSize,
                                2 * PageSize)>>],
     joined |->
        [ident_ok |-> TRUE, phentsize |-> PhEntSize, entry |-> PageSize,
         len |-> 2 * HalfPage, image |-> <<61, 62>>,
         headers |-> <<Loadable({"R", "X"}, PageSize, 0, HalfPage, PageSize),
                       Loadable({"R", "W"}, 2 * PageSize, HalfPage, HalfPage,
                                HalfPage)>>]]

\* the bytes of the magic number, which execve reads first
MagicLen == 4

\* the flags execve maps a segment's pages with: R gives user-accessible,
\* W writable, and a segment that is not executable gets no-execute
SegFlags(h) ==
    {"P"} \cup (IF "R" \in h.flags THEN {"U"} ELSE {})
          \cup (IF "W" \in h.flags THEN {"W"} ELSE {})
          \cup (IF "X" \in h.flags THEN {} ELSE {"NX"})

\* contents = binary[offset .. offset + image_size], in chunks
SegContents(bin, h) ==
    SubSeq(bin.image, h.offset \div HalfPage + 1, (h.offset + h.filesz) \div HalfPage)

\* start_index is the page's address minus the address of the contents in the
\* kernel heap, saturating: the heap lies above every user page, so it is 0
\* and src is the first page of the contents for every page of the segment.
\* Only src.len() bytes of the frame are written.
CopySegmentPage(old, contents) ==
    LET start_index == 0
        n == Min(start_index + 2, Len(contents)) - start_index IN
    [k \in 1..2 |-> IF k <= n THEN contents[start_index + k] ELSE old[k]]

RECURSIVE LoadPages(_, _, _, _, _)
LoadPages(st, pid, bin, h, pages) ==
    IF pages = {} \/ ~st.ok THEN st
    ELSE
      LET page == SetMin(pages) IN
      Then(allocate_frame(st.bitmap), LAMBDA a :
        IF a.frame = None THEN [st EXCEPT !.ok = FALSE, !.oom = TRUE]
        ELSE
          LET d == [st.data EXCEPT ![a.frame] = CopySegmentPage(@, SegContents(bin, h))] IN
          Then(map_to(st.ptab, a.bitmap, Root(st.procs, pid), page, a.frame, SegFlags(h)),
               LAMBDA m :
            IF ~m.ok
            THEN [st EXCEPT !.ok = FALSE, !.oom = m.oom, !.data = d,
                            !.ptab = m.ptab, !.bitmap = m.bitmap]
            ELSE Then([st EXCEPT !.data = d, !.ptab = m.ptab, !.bitmap = m.bitmap,
                                 !.procs = PushFrame(@, pid, a.frame)],
                      LAMBDA s : LoadPages(s, pid, bin, h, pages \ {page}))))

RECURSIVE LoadSegments(_, _, _, _)
LoadSegments(st, pid, bin, k) ==
    IF k > Len(bin.headers) \/ ~st.ok THEN st
    ELSE LET h == bin.headers[k] IN
         IF h.type # 1 THEN LoadSegments(st, pid, bin, k + 1)
         ELSE Then(LoadPages(st, pid, bin, h,
                             PageRangeInclusive(PageOf(h.vaddr), PageOf(h.vaddr + h.memsz))),
                   LAMBDA s : LoadSegments(s, pid, bin, k + 1))

\* the lower half of the top-level table is cleared
ClearUserHalf(pt, root) ==
    [pt EXCEPT ![root] = [i \in {j \in DOMAIN @ : j >= UserTop} |-> @[i]]]

BrkInitialOf(bin) ==
    IF bin.headers = <<>> THEN 0
    ELSE SetMax({bin.headers[k].vaddr + bin.headers[k].memsz : k \in 1..Len(bin.headers)})

\* an execve that sets the initial break and leaves the current break
process_execve_stale_brk(st, pid, bin, argc) ==
    IF bin.len < MagicLen THEN [st |-> st, res |-> "panic"]
    ELSE IF ~bin.ident_ok \/ bin.phentsize < PhEntSize
    THEN [st |-> st, res |-> "invalid"]
    ELSE
      Then([st EXCEPT !.ptab = ClearUserHalf(@, Root(st.procs, pid))], LAMBDA st1 :
      Then(LoadSegments(st1, pid, bin, 1), LAMBDA st2 :
        IF ~st2.ok THEN [st |-> st2, res |-> "panic"]
        ELSE
      Then([st2 EXCEPT !.procs[pid].brk_initial = BrkInitialOf(bin)], LAMBDA st3 :
      Then(allocate_user_page(st3, pid, PageOf(StackTop), {"NX"}), LAMBDA st4 :
        IF ~st4.ok THEN [st |-> st4, res |-> "panic"]
        ELSE
      Then([st4 EXCEPT
              !.data[FrameAt(st4.ptab, Root(st4.procs, pid), PageOf(StackTop))][1] =
                  1000 + argc], LAMBDA st5 :
      Then(AllocUserPages(st5, pid,
               PageRange(PageOf(StackTop - StackLen), PageOf(StackTop)), {"NX"}),
           LAMBDA st6 :
        IF ~st6.ok THEN [st |-> st6, res |-> "panic"]
        ELSE [st |-> st6, res |-> "ok"]))))))

\* UserProcess::execve. res is "invalid" for Err(InvalidHeader), "panic" where
\* an expect or unwrap fails or the image is too short for the slice that
\* holds the magic number, "ok" otherwise. The header is validated before
\* the user mappings are cleared.
process_execve(st, pid, bin, argc) ==
    IF bin.len < MagicLen THEN [st |-> st, res |-> "panic"]
    ELSE IF ~bin.ident_ok \/ bin.phentsize < PhEntSize
    THEN [st |-> st, res |-> "invalid"]
    ELSE
      Then([st EXCEPT !.ptab = ClearUserHalf(@, Root(st.procs, pid))], LAMBDA st1 :
      Then(LoadSegments(st1, pid, bin, 1), LAMBDA st2 :
        IF ~st2.ok THEN [st |-> st2, res |-> "panic"]
        ELSE
      Then([st2 EXCEPT !.procs[pid].brk_initial = BrkInitialOf(bin),
                       !.procs[pid].brk = BrkInitialOf(bin)], LAMBDA st3 :
      Then(allocate_user_page(st3, pid, PageOf(StackTop), {"NX"}), LAMBDA st4 :
        IF ~st4.ok THEN [st |-> st4, res |-> "panic"]
        ELSE
      Then([st4 EXCEPT
              !.data[FrameAt(st4.ptab, Root(st4.procs, pid), PageOf(StackTop))][1] =
                  1000 + argc], LAMBDA st5 :
      Then(AllocUserPages(st5, pid,
               PageRange(PageOf(StackTop - StackLen), PageOf(StackTop)), {"NX"}),
           LAMBDA st6 :
        IF ~st6.ok THEN [st |-> st6, res |-> "panic"]
        ELSE [st |-> st6, res |-> "ok"]))))))

\* UserProcess::fork: the page tables are cloned from the top level, the
\* descriptor table is copied (the descriptors stay shared), the child gets
\* the next pid and a new thread that starts in forked_entry.
process_fork(st, pid, child, tid) ==
    Then(fork_page_table(
             [ptab |-> st.ptab, data |-> st.data, bitmap |-> st.bitmap,
              frames |-> <<>>, frame |-> None, ok |-> TRUE, oom |-> FALSE],
             Root(st.procs, pid), Levels), LAMBDA f :
    IF ~f.ok
    THEN [st EXCEPT !.ok = FALSE, !.oom = f.oom,
                    !.ptab = f.ptab, !.data = f.data, !.bitmap = f.bitmap]
    ELSE [st EXCEPT
            !.ptab = f.ptab, !.data = f.data, !.bitmap = f.bitmap,
            !.procs = (child :> [files |-> st.procs[pid].files,
                                 next_fd |-> st.procs[pid].next_fd,
                                 thread |-> tid,
                                 frames |-> f.frames,
                                 brk |-> st.procs[pid].brk,
                                 brk_initial |-> st.procs[pid].brk_initial,
                                 cr3_frame |-> f.frame]) @@ @])

\* ---------------------------------------------------------------- VFS

Console == [dev |-> 1, inode |-> 1, kind |-> "Device", size |-> 0]
DevRoot == [dev |-> 1, inode |-> 0, kind |-> "Directory", size |-> 0]
VfsRoot == [dev |-> 0, inode |-> 0, kind |-> "Directory", size |-> 0]
RamRoot == [dev |-> 2, inode |-> 0, kind |-> "Directory", size |-> 0]

\* the ramdisk's files, in archive order: inode numbers count from 1
RamFiles ==
    <<[name |-> "init", bytes |-> <<>>, elf |-> "init"],
      [name |-> "hidden", bytes |-> <<>>, elf |-> "hidden"],
      [name |-> "bad", bytes |-> <<>>, elf |-> "bad"],
      [name |-> "hello", bytes |-> <<104, 105, 10>>, elf |-> "text"],
      [name |-> "small", bytes |-> <<>>, elf |-> "small"],
      [name |-> "wide", bytes |-> <<>>, elf |-> "wide"],
      [name |-> "joined", bytes |-> <<>>, elf |-> "joined"]>>

FileSize(k) ==
    IF RamFiles[k].bytes # <<>> THEN Len(RamFiles[k].bytes)
    ELSE Len(Binaries[RamFiles[k].elf].image) * HalfPage

RamInode(k) == [dev |-> 2, inode |-> k, kind |-> "File", size |-> FileSize(k)]

\* the mount table, in mount order
Mounts == <<[name |-> "dev", dev |-> 1, inode |-> 0],
            [name |-> "init", dev |-> 2, inode |-> 0]>>

Ok(inode) == [err |-> "ok", inode |-> inode]
Err(e) == [err |-> e, inode |-> VfsRoot]

\* VirtualFileSystem::readdir, with Devfs::readdir and Ramdisk::readdir
vfs_readdir(inode) ==
    IF inode.dev = 0 /\ inode.inode = 0 THEN [err |-> "ok", entries |-> Mounts]
    ELSE IF inode.kind # "Directory" THEN [err |-> "WrongType", entries |-> <<>>]
    ELSE IF inode.dev = 1
         THEN IF inode.inode = 0
              THEN [err |-> "ok",
                    entries |-> <<[name |-> "console", dev |-> 1, inode |-> 1]>>]
              ELSE [err |-> "NotFound", entries |-> <<>>]
    ELSE IF inode.dev = 2
         THEN [err |-> "ok",
               entries |-> [k \in 1..Len(RamFiles) |->
                              [name |-> RamFiles[k].name, dev |-> 2, inode |-> k]]]
    ELSE [err |-> "UnknownDevice", entries |-> <<>>]

\* VirtualFileSystem::inode, with Devfs::inode and Ramdisk::inode
vfs_inode(dev, ino) ==
    IF dev = 0 /\ ino = 0 THEN Ok(VfsRoot)
    ELSE IF dev = 1
         THEN IF ino = 0 THEN Ok(DevRoot)
              ELSE IF ino = 1 THEN Ok(Console) ELSE Err("NotFound")
    ELSE IF dev = 2
         THEN IF ino = 0 THEN Ok(RamRoot)
              ELSE IF ino \in 1..Len(RamFiles) THEN Ok(RamInode(ino))
              ELSE Err("NotFound")
    ELSE Err("UnknownDevice")

\* str::split("/"): the segments between the separators, empty ones included.
\* A path is a sequence of tokens, "/" or a name.
RECURSIVE Split(_)
Split(path) ==
    IF \A i \in 1..Len(path) : path[i] # "/" THEN <<path>>
    ELSE LET k == SetMin({i \in 1..Len(path) : path[i] = "/"}) IN
         <<SubSeq(path, 1, k - 1)>> \o Split(SubSeq(path, k + 1, Len(path)))

\* the step of the fold that looks up the empty segment like any other
TraverseStepStrict(acc, segment) ==
    IF acc.err # "ok" THEN acc
    ELSE LET rd == vfs_readdir(acc.inode) IN
         IF rd.err # "ok" THEN Err(rd.err)
         ELSE LET hits == {k \in 1..Len(rd.entries) : <<rd.entries[k].name>> = segment} IN
              IF hits = {} THEN Err("NotFound")
              ELSE vfs_inode(rd.entries[SetMin(hits)].dev, rd.entries[SetMin(hits)].inode)

\* one step of the fold of traverse_fs
TraverseStep(acc, segment) ==
    IF segment = <<>> THEN acc
    ELSE IF acc.err # "ok" THEN acc
    ELSE LET rd == vfs_readdir(acc.inode) IN
         IF rd.err # "ok" THEN Err(rd.err)
         ELSE LET hits == {k \in 1..Len(rd.entries) : <<rd.entries[k].name>> = segment} IN
              IF hits = {} THEN Err("NotFound")
              ELSE vfs_inode(rd.entries[SetMin(hits)].dev, rd.entries[SetMin(hits)].inode)

RECURSIVE Fold(_, _)
Fold(acc, segs) ==
    IF segs = <<>> THEN acc ELSE Fold(TraverseStep(acc, Head(segs)), Tail(segs))

traverse_fs(root, path) == Fold(Ok(root), Split(path))

\* VirtualFileSystem::open, with Devfs::open and Ramdisk::open
vfs_open(inode) ==
    IF inode.dev = 0 THEN "ok"
    ELSE IF inode.kind \notin {"Device", "File"} THEN "WrongType"
    ELSE IF inode.dev = 1 THEN (IF inode = Console THEN "ok" ELSE "NotFound")
    ELSE IF inode.dev = 2 THEN "ok"
    ELSE "UnknownDevice"

\* a read that takes its bytes from the start of the file whatever the offset
ramdisk_read_rewound(inode, offset, len) ==
    LET bytes == RamFiles[inode.inode].bytes
        stop == Min(offset + len, inode.size) IN
    IF offset + len >= WordEnd \/ offset > stop THEN [ok |-> FALSE, bytes |-> <<>>]
    ELSE [ok |-> TRUE,
          bytes |-> IF bytes = <<>> THEN [k \in 1..(stop - offset) |-> 0]
                    ELSE SubSeq(bytes, 1, stop - offset)]

\* Ramdisk::write refuses every write; Devfs::write takes those to the
\* console; VirtualFileSystem::write forwards by the device of the inode
ramdisk_write(inode) == "WrongType"

vfs_write(inode) ==
    IF inode.dev = 0 \/ inode.kind \notin {"Device", "File"} THEN "WrongType"
    ELSE IF inode.dev = 1 THEN (IF inode = Console THEN "ok" ELSE "NotFound")
    ELSE IF inode.dev = 2 THEN ramdisk_write(inode)
    ELSE "UnknownDevice"

\* Ramdisk::read: the bytes contents[offset .. min(offset + len, size)]; a sum
\* that overflows the word panics or wraps to less than offset, and a range
\* that ends before it starts panics
ramdisk_read(inode, offset, len) ==
    LET bytes == RamFiles[inode.inode].bytes
        stop == Min(offset + len, inode.size) IN
    IF offset + len >= WordEnd \/ offset > stop THEN [ok |-> FALSE, bytes |-> <<>>]
    ELSE [ok |-> TRUE,
          bytes |-> IF bytes = <<>> THEN [k \in 1..(stop - offset) |-> 0]
                    ELSE SubSeq(bytes, offset + 1, stop)]

\* ---------------------------------------------------------------- scheduler

Idle == 0

\* enqueue: push_back on READY
enqueue(rd, t) == Append(rd, t)

\* where a thread goes on when it gets the CPU: a forked child leaves through
\* forked_entry, an exec'ed thread through enter_userspace, a thread that
\* yielded inside a system call goes on in that call
Resume(pc) ==
    CASE pc = "forked" -> "user"
      [] pc = "entry" -> "user"
      [] pc = "read" -> "read_run"
      [] pc = "exit" -> "exit_run"
      [] OTHER -> pc

\* forked_entry without its xor rax, rax
ResumeRetKept(t) == t.ret

\* the value a resumed thread finds in rax: forked_entry clears it
ResumeRet(t) == IF t.pc = "forked" THEN 0 ELSE t.ret

\* the mutexes of the kernel, as they appear in cpu.locks: the mutex of a
\* thread, the mutex of the ready queue
ThreadLock(t) == <<"thread", t>>
ReadyLock == <<"READY", None>>
PmmLock == <<"PMM", None>>

\* the scheduler state of a caller that comes from a memory operation
Holding(sc, st) ==
    [sc EXCEPT !.cpu.locks = IF st.pmm THEN @ \cup {PmmLock} ELSE @]

\* yield_execution up to switch_to: the outgoing thread's mutex is taken for
\* its context (none when the current-thread slot is empty), the incoming
\* thread is put in the next-thread slot, the registers are swapped
switch_begin(sc, next) ==
    [sc EXCEPT !.cpu.next_thread = next,
               !.cpu.hook = "switch",
               !.cpu.locks = IF sc.current # None
                             THEN @ \cup {ThreadLock(sc.current)} ELSE @,
               !.switched = TRUE]

\* switch_finish_hook, first statement: force_unlock of the thread in the
\* current-thread slot, still the outgoing one
hook_unlock(sc) ==
    [sc EXCEPT !.cpu.locks = IF sc.current # None
                             THEN @ \ {ThreadLock(sc.current)} ELSE @,
               !.cpu.hook = "unlocked"]

\* the hook that leaves the next-thread slot as it is
hook_current_kept(sc) ==
    [sc EXCEPT !.current = sc.cpu.next_thread, !.cpu.hook = "current"]

\* switch_finish_hook: current_thread = next_thread; next_thread = None
hook_current(sc) ==
    [sc EXCEPT !.current = sc.cpu.next_thread,
               !.cpu.next_thread = None,
               !.cpu.hook = "current"]

\* switch_finish_hook: set_ist with the top of the current kernel stack
hook_ist(sc) == [sc EXCEPT !.cpu.ist = sc.current, !.cpu.hook = "ist"]

\* switch_finish_hook: Cr3::write when the thread has a page-table frame, and
\* the return into the incoming thread
hook_cr3(sc) ==
    [sc EXCEPT !.cpu.cr3 = IF sc.thr[sc.current].cr3_frame # None
                           THEN sc.thr[sc.current].cr3_frame ELSE @,
               !.cpu.hook = "none",
               !.thr[sc.current].pc = Resume(@),
               !.thr[sc.current].ret = ResumeRet(sc.thr[sc.current])]

\* the hook with the unlock as its last statement
hook_unlock_last(sc) ==
    Then(hook_current(sc), LAMBDA a :
    Then(hook_ist(a), LAMBDA b :
    Then(hook_cr3(b), LAMBDA c :
    [c EXCEPT !.cpu.locks = IF sc.current # None
                            THEN @ \ {ThreadLock(sc.current)} ELSE @])))

\* switch_finish_hook as a whole
switch_finish_hook(sc) ==
    Then(hook_unlock(sc), LAMBDA a :
    Then(hook_current(a), LAMBDA b :
    Then(hook_ist(b), LAMBDA c : hook_cr3(c))))

\* switch_to and switch_finish_hook: the picked thread becomes the current
\* one, its kernel stack the TSS privilege stack, its page tables the active
\* ones when it has any. With cpu.stepwise the switch stops after switch_to
\* and the statements of the hook are steps of their own.
SwitchTo(sc, next) ==
    Then(switch_begin(sc, next), LAMBDA b :
         IF b.cpu.stepwise THEN b ELSE switch_finish_hook(b))

\* the pop of yield_execution that keeps the mutex of the ready queue
pop_ready_held(sc) ==
    [sc EXCEPT !.ready = IF @ # <<>> THEN Tail(@) ELSE @,
               !.picked = IF sc.ready # <<>> THEN Head(sc.ready) ELSE Idle,
               !.from_queue = (sc.ready # <<>>),
               !.cpu.locks = @ \cup {ReadyLock}]

\* READY.lock().pop_front().unwrap_or(idle_thread): the mutex of the ready
\* queue is taken for the pop and released after it
pop_ready(sc) ==
    [sc EXCEPT !.ready = IF @ # <<>> THEN Tail(@) ELSE @,
               !.picked = IF sc.ready # <<>> THEN Head(sc.ready) ELSE Idle,
               !.from_queue = (sc.ready # <<>>),
               !.cpu.locks = (@ \cup {ReadyLock}) \ {ReadyLock}]

\* yield_execution: the head of READY or, when it is empty, the idle thread;
\* no switch when that is the current thread
yield_execution(sc) ==
    Then(pop_ready(sc), LAMBDA popped :
         IF sc.current # None /\ sc.current = popped.picked
         THEN [popped EXCEPT !.thr[popped.picked].pc = Resume(@), !.switched = FALSE]
         ELSE SwitchTo(popped, popped.picked))

\* yield_and_continue: the current thread is enqueued, then yield_execution
\* a tick that does not put the running thread back on the queue
yield_and_continue_dropped(sc) == yield_execution(sc)

yield_and_continue(sc) ==
    yield_execution(IF sc.current # None
                    THEN [sc EXCEPT !.ready = enqueue(@, sc.current)]
                    ELSE sc)

SchedState == [ready |-> ready, current |-> current, thr |-> thr, cpu |-> cpu,
               picked |-> None, from_queue |-> FALSE, switched |-> FALSE]

\* ---------------------------------------------------------------- boot

\* the memory map of the machine: firmware, a small usable region that takes
\* the bitmap, and the main usable region
BootRegions ==
    <<[start |-> 0, end |-> 8 * PageSize, usable |-> FALSE],
      [start |-> 8 * PageSize, end |-> 10 * PageSize, usable |-> TRUE],
      [start |-> 10 * PageSize, end |-> WordBits * PageSize, usable |-> TRUE]>>

Frames == 0..(WordBits - 1)

NoFiles == [i \in {} |-> 0]

NewThread(pid, root, pc) ==
    [process |-> pid, pc |-> pc, cr3_frame |-> root, ret |-> 0, tf |-> 0,
     sp |-> 0, rd_desc |-> None, rd_buf |-> 0, rd_len |-> 0]

\* the kernel's own top-level table: one entry of the upper half, shared by
\* every process
BootMem ==
    LET bm0 == PmmNew(BootRegions).bitmap
        a == allocate_frame(bm0)
        b == allocate_frame(a.bitmap) IN
    [root |-> a.frame, bitmap |-> b.bitmap,
     ptab |-> [[f \in Frames |-> EmptyTable] EXCEPT
                 ![a.frame] = (EntriesPerTable - 1) :>
                                [addr |-> b.frame, flags |-> {"P", "W"}]]]

\* UserProcess::create: no descriptors, no frames, the kernel's table
CreatedProc(tid) ==
    [files |-> NoFiles, next_fd |-> 0, thread |-> tid, frames |-> <<>>,
     brk |-> 0, brk_initial |-> 0, cr3_frame |-> BootMem.root]

\* the state the first process is started in: pid 1 created, the init binary
\* loaded into it with three arguments
Booted ==
    process_execve([ptab |-> BootMem.ptab,
                    data |-> [f \in Frames |-> <<0, 0>>],
                    bitmap |-> BootMem.bitmap,
                    procs |-> (1 :> CreatedProc(1)),
                    ok |-> TRUE, oom |-> FALSE, pmm |-> FALSE],
                   1, Binaries.init, 3).st

NoOp == [op |-> "boot", tid |-> None, pid |-> None, arg |-> 0, ret |-> 0,
         obj |-> None, picked |-> None, from_queue |-> FALSE, switched |-> FALSE]

InitBoot(typed, stepwise) ==
    /\ regions = BootRegions
    /\ pmmOk = TRUE
    /\ bitmap = Booted.bitmap
    /\ held = {}
    /\ lastFrame = None
    /\ ptab = Booted.ptab
    /\ data = Booted.data
    /\ procs = Booted.procs
    /\ nextPid = 2
    /\ thr = (Idle :> NewThread(None, None, "idle")) @@
             (1 :> [NewThread(1, BootMem.root, "user") EXCEPT
                      !.tf = Binaries.init.entry, !.sp = StackTop])
    /\ nextTid = 2
    /\ ready = <<>>
    /\ current = 1
    /\ waiting = None
    /\ scancodes = typed
    /\ pending = <<>>
    /\ desc = <<>>
    /\ halted = "no"
    /\ keys = 0
    /\ cpu = [cr3 |-> BootMem.root, ist |-> 1, next_thread |-> None, fs |-> 0,
              hook |-> "none", locks |-> {}, stepwise |-> stepwise]
    /\ lastOp = NoOp

InitWith(typed) == InitBoot(typed, FALSE)

Init == InitWith(<<>>)

\* ---------------------------------------------------------------- actions

SetMem(st) ==
    /\ ptab' = st.ptab
    /\ data' = st.data
    /\ bitmap' = st.bitmap
    /\ procs' = st.procs

SetSched(sc) ==
    /\ ready' = sc.ready
    /\ current' = sc.current
    /\ thr' = sc.thr
    /\ cpu' = sc.cpu

\* the record of an operation: who ran it, its argument and result, and what
\* the scheduler did in it
DoneOn(name, arg, ret, sc, obj) ==
    lastOp' = [op |-> name, tid |-> current,
               pid |-> IF current = None THEN None ELSE thr[current].process,
               arg |-> arg, ret |-> ret, obj |-> obj, picked |-> sc.picked,
               from_queue |-> sc.from_queue, switched |-> sc.switched]

Done(name, arg, ret, sc) == DoneOn(name, arg, ret, sc, None)

\* the current thread runs user code, with interrupts enabled
UserMode ==
    halted = "no" /\ cpu.hook = "none" /\ current # None /\ thr[current].pc = "user"

\* interrupts are enabled in user mode and in the idle loop only: system
\* calls run with the interrupt flag masked
InterruptsOn ==
    /\ halted = "no" /\ cpu.hook = "none"
    /\ current # None /\ thr[current].pc \in {"user", "idle"}

Me == thr[current].process

\* an expect or unwrap failed: the kernel stops with what was done so far
PanicCore(name, arg, st) ==
    /\ SetMem(st)
    /\ halted' = "panic"
    /\ Done(name, arg, None, SchedState)
    /\ UNCHANGED <<pmmVars, nextPid, desc, schedVars, waiting, keys>>

Panic(name, arg, st) == PanicCore(name, arg, st) /\ UNCHANGED <<scancodes, pending>>

\* lapic_timer: end of interrupt, then yield_and_continue
Timer ==
    /\ InterruptsOn
    /\ LET sc == yield_and_continue(SchedState) IN
       SetSched(sc) /\ Done("timer", 0, 0, sc)
    /\ UNCHANGED <<memVars, pmmVars, nextPid, nextTid, desc, waiting, devVars, halted>>

\* ArrayQueue::force_push: the oldest element makes room in a full queue
\* a push that gives up on a full ring: the new scancode is lost
force_push_refused(q, x) == IF Len(q) >= QueueCap THEN q ELSE Append(q, x)

force_push(q, x) == IF Len(q) >= QueueCap THEN Append(Tail(q), x) ELSE Append(q, x)

\* keyboard interrupt: push_scancode puts the scancode into the ring and
\* enqueues whatever thread the wait slot names
\* the keyboard interrupt without the wake-up of the waiting thread
KeyboardSilent(scancode, max) ==
    /\ InterruptsOn
    /\ keys < max
    /\ keys' = keys + 1
    /\ scancodes' = force_push(scancodes, scancode)
    /\ Done("key", scancode, 0, SchedState)
    /\ UNCHANGED <<memVars, pmmVars, nextPid, nextTid, desc, waiting, pending,
                   halted, thr, current, cpu, ready>>

KeyboardWithin(scancode, max) ==
    /\ InterruptsOn
    /\ keys < max
    /\ keys' = keys + 1
    /\ scancodes' = force_push(scancodes, scancode)
    /\ ready' = IF waiting # None THEN enqueue(ready, waiting) ELSE ready
    /\ Done("key", scancode, 0, SchedState)
    /\ UNCHANGED <<memVars, pmmVars, nextPid, nextTid, desc, waiting, pending,
                   halted, thr, current, cpu>>

Keyboard(scancode) == KeyboardWithin(scancode, MaxKeys)

\* fork: the process is cloned, the child's thread gets the parent's trap
\* frame and forked_entry as its entry, it is enqueued, and the parent gets
\* the child's pid
SysFork ==
    /\ UserMode
    /\ nextPid <= MaxProcs
    /\ \E st \in {process_fork(MemState, Me, nextPid, nextTid)} :
       IF ~st.ok THEN Panic("fork", 0, st)
       ELSE /\ SetMem(st)
            /\ nextPid' = nextPid + 1
            /\ nextTid' = nextTid + 1
            /\ thr' = (nextTid :> [NewThread(nextPid, st.procs[nextPid].cr3_frame,
                                             "forked")
                                     EXCEPT !.tf = thr[current].tf,
                                            !.sp = thr[current].sp,
                                            !.ret = None]) @@
                      [thr EXCEPT ![current].ret = nextPid]
            /\ ready' = enqueue(ready, nextTid)
            /\ Done("fork", 0, nextPid, SchedState)
            /\ UNCHANGED <<pmmVars, desc, current, cpu, waiting, devVars, halted>>

\* filesystem::read of a path: the file's image, or an error
ReadBinary(path) ==
    LET f == traverse_fs(VfsRoot, path) IN
    IF f.err # "ok" \/ vfs_open(f.inode) # "ok" \/ f.inode.dev # 2
    THEN [ok |-> FALSE, bin |-> Binaries.bad]
    ELSE [ok |-> TRUE, bin |-> Binaries[RamFiles[f.inode.inode].elf]]

\* the loop over argv: the address of every slot up to the terminating null
\* one is checked, the first that does not pass decides
ArgvCheck(argv, argc) ==
    LET bad == {i \in 0..argc : CheckPtr((argv + 8 * i) % WordEnd) # {"ok"}} IN
    IF argv = 0 \/ bad = {} THEN {"ok"}
    ELSE CheckPtr((argv + 8 * SetMin(bad)) % WordEnd)

\* what execve_inner does with its pointers before it touches the process:
\* a null filename is an error, the string at filename (path, as long as the
\* bytes found there) and the argv slots are checked
ExecveArgs(filename, path, argv, argc) ==
    IF filename = 0 THEN {"fault"}
    ELSE UNION {IF o = "ok" THEN ArgvCheck(argv, argc) ELSE {o} :
                  o \in check_buffer(filename, Len(path))}

\* the requeue of execve_inner with the current-thread slot left as it is
execve_requeue_current(sc, entry) ==
    [sc EXCEPT !.thr[sc.current].pc = "entry",
               !.thr[sc.current].tf = entry,
               !.thr[sc.current].sp = StackTop,
               !.ready = enqueue(@, sc.current)]

\* what execve_inner does once the image is loaded: the current-thread slot
\* is cleared, the thread's saved context is the entry of enter_userspace
\* with the image's entry point and the stack top, the thread is enqueued
execve_requeue(sc, entry) ==
    [sc EXCEPT !.current = None,
               !.thr[sc.current].pc = "entry",
               !.thr[sc.current].tf = entry,
               !.thr[sc.current].sp = StackTop,
               !.ready = enqueue(@, sc.current)]

\* execve: on success the thread is requeued with enter_userspace as its
\* entry and the CPU is given away with no current thread, a yield that
\* comes back is a panic; on an error the call returns u64::MAX
SysExecve(filename, path, argv, argc) ==
    /\ UserMode
    /\ \E o \in ExecveArgs(filename, path, argv, argc) :
       IF o = "panic" THEN Panic("execve", argc, MemState)
       ELSE
       \E b \in {ReadBinary(path)} :
       \E r \in {IF o = "ok"
                 THEN process_execve(MemState, Me, b.bin, IF argv = 0 THEN 0 ELSE argc)
                 ELSE [st |-> MemState, res |-> "invalid"]} :
       IF ~b.ok \/ r.res = "invalid"
       THEN /\ thr' = [thr EXCEPT ![current].ret = 0 - 1]
            /\ Done("execve", argc, 0 - 1, SchedState)
            /\ UNCHANGED <<memVars, pmmVars, nextPid, nextTid, desc, ready, current,
                           cpu, waiting, devVars, halted>>
       ELSE IF r.res = "panic" THEN Panic("execve", argc, r.st)
       ELSE
       \E sc \in {yield_execution(execve_requeue(Holding(SchedState, r.st),
                                                 b.bin.entry))} :
       IF ~sc.switched THEN Panic("execve", argc, r.st)
       ELSE /\ SetMem(r.st)
            /\ SetSched(sc)
            /\ Done("execve", argc, 0, sc)
            /\ UNCHANGED <<pmmVars, nextPid, nextTid, desc, waiting, devVars, halted>>

\* the loop of exit with yield_and_continue for its yield
exit_loop_requeued(sc) ==
    yield_and_continue([sc EXCEPT !.thr[sc.current].pc = "exit"])

\* one turn of the loop of exit: yield_execution, the thread is not enqueued
exit_loop(sc) ==
    yield_execution([sc EXCEPT !.thr[sc.current].pc = "exit"])

\* exit: the thread gives the CPU away, again and again
SysExit ==
    /\ UserMode
    /\ LET sc == exit_loop(SchedState) IN
       SetSched(sc) /\ Done("exit", 0, 0, sc)
    /\ UNCHANGED <<memVars, pmmVars, nextPid, nextTid, desc, waiting, devVars, halted>>

\* an exited thread that got the CPU back yields once more
ExitRun ==
    /\ halted = "no" /\ cpu.hook = "none"
    /\ current # None /\ thr[current].pc = "exit_run"
    /\ LET sc == exit_loop(SchedState) IN
       SetSched(sc) /\ Done("exit_run", 0, 0, sc)
    /\ UNCHANGED <<memVars, pmmVars, nextPid, nextTid, desc, waiting, devVars, halted>>

\* ---------------------------------------------------------------- files

EFAULT == 14
EBADF == 9
EINVAL == 22
ENOENT == 2
EISDIR == 21
ENOMEM == 12
ARCH_SET_FS == 4098
O_ACCMODE == 3
O_RDONLY == 0
O_WRONLY == 1
O_RDWR == 2

\* the bytes of a short buffer, as they lie in a half page
RECURSIVE Encode(_)
Encode(bytes) == IF bytes = <<>> THEN 0 ELSE Head(bytes) + 256 * Encode(Tail(bytes))

HalfOf(addr) == (addr % PageSize) \div HalfPage + 1

\* the descriptor goes in and the counter stays
insert_fd_kept(p, d) == [p EXCEPT !.files = (p.next_fd :> d) @@ @]

\* the descriptor d goes into the table at next_fd, which is incremented
insert_fd(p, d) ==
    [p EXCEPT !.files = (p.next_fd :> d) @@ @, !.next_fd = @ + 1]

\* open: the string at pathname (path, as long as the bytes found there) is
\* read first and its buffer asserted to pass check_buffer; the path is
\* resolved and opened (either failure is a panic), a new descriptor with
\* offset 0 goes into the table at next_fd
SysOpen(pathname, path, flags) ==
    /\ UserMode
    /\ Len(desc) < MaxDesc
    /\ \E o \in check_buffer(pathname, Len(path)) :
       LET f == traverse_fs(VfsRoot, path) IN
       IF pathname = 0 \/ o # "ok" \/ f.err # "ok" \/ vfs_open(f.inode) # "ok"
       THEN Panic("open", flags, MemState)
       ELSE LET fd == procs[Me].next_fd IN
            /\ desc' = Append(desc, [inode |-> f.inode, flags |-> flags,
                                     offset |-> 0, lock |-> None])
            /\ procs' = [procs EXCEPT ![Me] = insert_fd(@, Len(desc) + 1)]
            /\ thr' = [thr EXCEPT ![current].ret = fd]
            /\ Done("open", flags, fd, SchedState)
            /\ UNCHANGED <<ptab, data, bitmap, pmmVars, nextPid, nextTid, ready,
                           current, cpu, waiting, devVars, halted>>

\* the inner loop of the console read: scancodes are decoded into the pending
\* line while it is shorter than the buffer (a scancode stands for the byte
\* it decodes to, 0 for a key without one)
RECURSIVE Drain(_, _, _)
Drain(sc, pend, n) ==
    IF Len(pend) < n /\ sc # <<>>
    THEN Drain(Tail(sc), IF Head(sc) # 0 THEN Append(pend, Head(sc)) ELSE pend, n)
    ELSE [scancodes |-> sc, pending |-> pend]

\* the console read that keeps the byte that ended the line to itself
ConsoleReadCut(n) ==
    LET d == Drain(scancodes, pending, n)
        p == d.pending
        last == IF p = <<>> THEN None ELSE p[Len(p)]
        len == Min(n, Len(p)) IN
    IF Len(p) < n /\ last # 10 /\ last # 4
    THEN [block |-> TRUE, scancodes |-> d.scancodes, pending |-> p, bytes |-> <<>>]
    ELSE [block |-> FALSE, scancodes |-> d.scancodes,
          pending |-> SubSeq(p, len + 1, Len(p)),
          bytes |-> SubSeq(p, 1, IF last \in {10, 4} THEN len - 1 ELSE len)]

\* one turn of the console read's outer loop: block when the line is shorter
\* than the buffer and does not end in a newline or EOF; otherwise hand out
\* the head of the line, an EOF at its end replaced by 0
ConsoleRead(n) ==
    LET d == Drain(scancodes, pending, n)
        p == d.pending
        last == IF p = <<>> THEN None ELSE p[Len(p)]
        p2 == IF last = 4 THEN [p EXCEPT ![Len(p)] = 0] ELSE p
        len == Min(n, Len(p)) IN
    IF Len(p) < n /\ last # 10 /\ last # 4
    THEN [block |-> TRUE, scancodes |-> d.scancodes, pending |-> p, bytes |-> <<>>]
    ELSE [block |-> FALSE, scancodes |-> d.scancodes,
          pending |-> SubSeq(p2, len + 1, Len(p2)), bytes |-> SubSeq(p2, 1, len)]

\* the offset left as it was
AdvanceLost(d, count) == desc

\* the offset kept with the inode: every descriptor of d's inode advances
AdvanceInode(d, count) ==
    [e \in DOMAIN desc |->
        IF desc[e].inode = desc[d].inode
        THEN [desc[e] EXCEPT !.offset = @ + count] ELSE desc[e]]

\* fd.offset += count
Advance(d, count) == [desc EXCEPT ![d].offset = @ + count]

\* the rest of read once the filesystem returned the bytes: they are copied
\* to the buffer, the offset advances by their number, the locks are dropped
ReadDone(name, d, buf, n, bytes) ==
    IF bytes # <<>> /\ ~Mapped(ptab, cpu.cr3, PageOf(buf))
    THEN PanicCore(name, n, MemState)
    ELSE /\ data' = IF bytes = <<>> THEN data
                    ELSE [data EXCEPT ![FrameAt(ptab, cpu.cr3, PageOf(buf))][HalfOf(buf)]
                                         = Encode(bytes)]
         /\ desc' = [Advance(d, Len(bytes)) EXCEPT ![d].lock = None]
         /\ thr' = [thr EXCEPT ![current].ret = Len(bytes), ![current].pc = "user"]
         /\ DoneOn(name, n, Len(bytes), SchedState, d)
         /\ UNCHANGED <<ptab, bitmap, procs, pmmVars, nextPid, nextTid, ready,
                        current, cpu, waiting, keys, halted>>

\* the console read from the top of its loop, for a thread that holds the
\* descriptor's lock
ReadConsole(name, d, buf, n) ==
    LET c == ConsoleRead(n) IN
    /\ scancodes' = c.scancodes
    /\ IF c.block
       THEN LET sc == yield_execution(
                        [SchedState EXCEPT !.thr[current].pc = "read",
                                           !.thr[current].rd_desc = d,
                                           !.thr[current].rd_buf = buf,
                                           !.thr[current].rd_len = n]) IN
            /\ waiting' = current
            /\ pending' = c.pending
            /\ desc' = [desc EXCEPT ![d].lock = current]
            /\ SetSched(sc)
            /\ Done(name, n, None, sc)
            /\ UNCHANGED <<memVars, pmmVars, nextPid, nextTid, keys, halted>>
       ELSE pending' = c.pending /\ ReadDone(name, d, buf, n, c.bytes)

\* another thread holds the descriptor's lock and cannot run: the spin lock
\* never opens
Spin(name, arg) ==
    /\ halted' = "spin"
    /\ Done(name, arg, None, SchedState)
    /\ UNCHANGED <<memVars, pmmVars, nextPid, desc, schedVars, waiting, devVars>>

\* a system call returns an error number
Fail(name, arg, errno) ==
    /\ thr' = [thr EXCEPT ![current].ret = 0 - errno]
    /\ Done(name, arg, 0 - errno, SchedState)
    /\ UNCHANGED <<memVars, pmmVars, nextPid, nextTid, desc, ready, current, cpu,
                   waiting, devVars, halted>>

\* read: buffer check, descriptor lookup, the descriptor's write lock, access
\* mode check, then the filesystem's read (whose error is a panic)
SysRead(fd, buf, n) ==
    /\ UserMode
    /\ \E o \in UserSlice(buf, n) :
       IF o = "panic" THEN Panic("read", n, MemState)
       ELSE IF o = "fault" THEN Fail("read", n, EFAULT)
       ELSE IF fd \notin DOMAIN procs[Me].files THEN Fail("read", n, EBADF)
       ELSE LET d == procs[Me].files[fd]
                mode == desc[d].flags % (O_ACCMODE + 1) IN
            IF desc[d].lock # None THEN Spin("read", n)
            ELSE IF mode # O_RDWR /\ mode # O_RDONLY THEN Fail("read", n, EBADF)
            ELSE IF desc[d].inode = Console THEN ReadConsole("read", d, buf, n)
            ELSE IF desc[d].inode.kind = "File"
            THEN LET r == ramdisk_read(desc[d].inode, desc[d].offset, n) IN
                 IF ~r.ok THEN Panic("read", n, MemState)
                 ELSE ReadDone("read", d, buf, n, r.bytes)
                      /\ UNCHANGED <<scancodes, pending>>
            ELSE Panic("read", n, MemState)

\* a blocked reader that got the CPU back goes on at the top of the loop
ReadRun ==
    /\ halted = "no" /\ cpu.hook = "none"
    /\ current # None /\ thr[current].pc = "read_run"
    /\ ReadConsole("read_run", thr[current].rd_desc, thr[current].rd_buf,
                   thr[current].rd_len)

\* write: as read; the console takes the bytes, the ramdisk refuses them
SysWrite(fd, buf, n) ==
    /\ UserMode
    /\ \E o \in UserSlice(buf, n) :
       IF o = "panic" THEN Panic("write", n, MemState)
       ELSE IF o = "fault" THEN Fail("write", n, EFAULT)
       ELSE IF fd \notin DOMAIN procs[Me].files THEN Fail("write", n, EBADF)
       ELSE LET d == procs[Me].files[fd]
                mode == desc[d].flags % (O_ACCMODE + 1) IN
            IF desc[d].lock # None THEN Spin("write", n)
            ELSE IF mode # O_RDWR /\ mode # O_WRONLY THEN Fail("write", n, EBADF)
            ELSE IF vfs_write(desc[d].inode) # "ok"
                    \/ (n > 0 /\ (buf + n > UserEnd \/ ~Mapped(ptab, cpu.cr3, PageOf(buf))))
            THEN Panic("write", n, MemState)
            ELSE /\ desc' = Advance(d, n)
                 /\ thr' = [thr EXCEPT ![current].ret = n]
                 /\ DoneOn("write", n, n, SchedState, d)
                 /\ UNCHANGED <<memVars, pmmVars, nextPid, nextTid, ready, current,
                                cpu, waiting, devVars, halted>>

\* close: nothing is closed
SysClose(fd) ==
    /\ UserMode
    /\ thr' = [thr EXCEPT ![current].ret = 0]
    /\ Done("close", fd, 0, SchedState)
    /\ UNCHANGED <<memVars, pmmVars, nextPid, nextTid, desc, ready, current, cpu,
                   waiting, devVars, halted>>

\* arch_prctl: ARCH_SET_FS writes a user address to the FS base register,
\* every other operation is invalid
SysArchPrctl(op, addr) ==
    /\ UserMode
    /\ IF op # ARCH_SET_FS THEN Fail("arch_prctl", op, EINVAL)
       ELSE \E v \in VirtAddrNew(addr) :
            IF v = None THEN Panic("arch_prctl", op, MemState)
            ELSE IF ~check_addr(v) THEN Fail("arch_prctl", op, EFAULT)
            ELSE /\ cpu' = [cpu EXCEPT !.fs = v]
                 /\ thr' = [thr EXCEPT ![current].ret = 0]
                 /\ Done("arch_prctl", op, 0, SchedState)
                 /\ UNCHANGED <<memVars, pmmVars, nextPid, nextTid, desc, ready,
                                current, waiting, devVars, halted>>

\* brk: an address outside user space, below the initial break, or null
\* leaves the break alone; growing maps the pages after the break's page up
\* to the address's page, shrinking unmaps the pages after the address's page
\* up to the break's page
process_brk(st, pid, addr) ==
    LET p == st.procs[pid] IN
    IF ~check_addr(addr) \/ addr < p.brk_initial \/ addr = 0 THEN st
    ELSE Then(IF addr > p.brk
              THEN AllocUserPages(st, pid, (PageOf(p.brk) + 1)..PageOf(addr), {"NX"})
              ELSE st, LAMBDA grown :
         Then(IF addr < p.brk /\ grown.ok
              THEN UnmapPages(grown, pid, (PageOf(addr) + 1)..PageOf(p.brk))
              ELSE grown, LAMBDA shrunk :
         IF shrunk.ok THEN [shrunk EXCEPT !.procs[pid].brk = addr] ELSE shrunk))

\* the system call: VirtAddr::new(addr) comes first
SysBrk(addr) ==
    /\ UserMode
    /\ \E v \in VirtAddrNew(addr) :
       IF v = None THEN Panic("brk", addr, MemState)
       ELSE
       \E st \in {process_brk(MemState, Me, v)} :
       IF ~st.ok THEN Panic("brk", addr, st)
       ELSE /\ SetMem(st)
            /\ thr' = [thr EXCEPT ![current].ret = st.procs[Me].brk]
            /\ Done("brk", addr, st.procs[Me].brk, SchedState)
            /\ UNCHANGED <<pmmVars, nextPid, nextTid, desc, ready, current, cpu,
                           waiting, devVars, halted>>

\* a store of user code to a page the MMU lets user mode write
UserWrite(page, val) ==
    /\ UserMode
    /\ Grants(ptab, cpu.cr3, page, "U")
    /\ Grants(ptab, cpu.cr3, page, "W")
    /\ data' = [data EXCEPT ![FrameAt(ptab, cpu.cr3, page)][1] = val]
    /\ Done("store", page, val, SchedState)
    /\ UNCHANGED <<ptab, bitmap, procs, pmmVars, nextPid, desc, schedVars, waiting,
                   devVars, halted>>

\* ---------------------------------------------------------------- specifications

\* paths, as the sequences of their components and separators
ConsolePath == <<"/", "dev", "/", "console">>
InitPath == <<"/", "init", "/", "init">>
HiddenPath == <<"/", "init", "/", "hidden">>
BadPath == <<"/", "init", "/", "bad">>
HelloPath == <<"/", "init", "/", "hello">>
SmallPath == <<"/", "init", "/", "small">>
WidePath == <<"/", "init", "/", "wide">>
JoinedPath == <<"/", "init", "/", "joined">>

\* scancodes by the byte they decode to: a letter and newline
Scancodes == {97, 10}

\* the scheduler with the console: processes fork, exec, exit and read lines
Next ==
    \/ Timer
    \/ \E k \in Scancodes : Keyboard(k)
    \/ SysFork
    \/ SysExecve(StackTop, InitPath, StackTop, 1)
    \/ SysOpen(StackTop, ConsolePath, O_RDWR)
    \/ SysRead(0, StackTop, 1)
    \/ ReadRun
    \/ SysExit
    \/ ExitRun

Spec == Init /\ [][Next]_vars

\* the console alone: one process opens it and reads lines of up to MaxLine
\* keys into buffers of several lengths; the keys are two letters, newline
\* and EOF
LineKeys == {97, 98, 10, 4}
LineLen == 16
BufLens == {0, 2, LineLen}

NextCon ==
    \/ Timer
    \/ \E k \in LineKeys : KeyboardWithin(k, MaxLine)
    \/ SysOpen(StackTop, ConsolePath, O_RDWR)
    \/ \E n \in BufLens : SysRead(0, StackTop, n)
    \/ ReadRun

SpecCon == Init /\ [][NextCon]_vars

\* the same with the timer firing for ever and a dispatched reader going on
SpecConLive == SpecCon /\ WF_vars(Timer) /\ WF_vars(ReadRun)

\* the scancode ring close to full: one key short of its capacity was typed
\* before the first process looked at the console, a 'b' and then 'a's; more
\* keys follow, and the process reads them two at a time (no read finds the
\* console empty, none blocks)
TypedAhead == [i \in 1..(QueueCap - 1) |-> IF i = 1 THEN 98 ELSE 97]

InitRing == InitWith(TypedAhead)

ReadWithin(fd, buf, n) ==
    /\ UserMode
    /\ fd \in DOMAIN procs[Me].files
    /\ desc[procs[Me].files[fd]].offset + n <= MaxOffset
    /\ SysRead(fd, buf, n)

NextRing ==
    \/ Timer
    \/ \E k \in {97, 10} : KeyboardWithin(k, MaxLine)
    \/ SysOpen(StackTop, ConsolePath, O_RDWR)
    \/ ReadWithin(0, StackTop, 2)

SpecRing == InitRing /\ [][NextRing]_vars

\* path traversal alone: any path of up to MaxPath tokens, separators and
\* names that exist as a mount, as a file, as both or not at all, from any
\* inode of the mounted filesystems, one traversal a run
PathTokens == {"/", "dev", "init", "console", "nope"}
PathInputs == UNION {[1..n -> PathTokens] : n \in 0..MaxPath}
StartInodes == {VfsRoot, DevRoot, Console, RamRoot, RamInode(1)}

Traverse(root, path) ==
    /\ lastOp.op = "boot"
    /\ lastOp' = [NoOp EXCEPT !.op = "traverse", !.obj = root, !.arg = path,
                              !.ret = traverse_fs(root, path)]
    /\ UNCHANGED <<memVars, pmmVars, nextPid, desc, schedVars, waiting, devVars,
                   halted>>

NextPath == \E root \in StartInodes, path \in PathInputs : Traverse(root, path)

SpecPath == Init /\ [][NextPath]_vars

\* the context switch in steps: every yield stops after switch_to, and the
\* statements of switch_finish_hook follow one by one on the incoming stack,
\* with interrupts off
HookStep(phase, name, sc) ==
    /\ halted = "no" /\ cpu.hook = phase
    /\ SetSched(sc)
    /\ lastOp' = [lastOp EXCEPT !.op = name]
    /\ UNCHANGED <<memVars, pmmVars, nextPid, nextTid, desc, waiting, devVars, halted>>

HookUnlock == HookStep("switch", "hook_unlock", hook_unlock(SchedState))
HookCurrent == HookStep("unlocked", "hook_current", hook_current(SchedState))
HookIst == HookStep("current", "hook_ist", hook_ist(SchedState))
HookCr3 == HookStep("ist", "hook_cr3", hook_cr3(SchedState))

InitSwitch == InitBoot(<<>>, TRUE)

NextSwitch ==
    \/ Timer
    \/ Keyboard(10)
    \/ SysFork
    \/ SysExecve(StackTop, InitPath, StackTop, 1)
    \/ SysOpen(StackTop, ConsolePath, O_RDWR)
    \/ SysRead(0, StackTop, 1)
    \/ ReadRun
    \/ SysExit
    \/ ExitRun
    \/ HookUnlock
    \/ HookCurrent
    \/ HookIst
    \/ HookCr3

SpecSwitch == InitSwitch /\ [][NextSwitch]_vars

\* ---------------------------------------------------------------- scheduler claims

\* how often a thread is in a queue
Count(q, t) == Cardinality({i \in 1..Len(q) : q[i] = t})

\* C1: in every reachable state each thread handle is in the ready queue at
\* most once, whatever the interleaving of the enqueues of fork, execve, the
\* keyboard wake-up and timer preemption with the pops of yield_execution
C1_ReadyAtMostOnce == \A t \in DOMAIN thr : Count(ready, t) <= 1

\* C2: every thread other than the idle thread is in at most one of the
\* situations running, in the ready queue, blocked on the console wait slot,
\* and in the ready queue at most once. A thread counts as blocked only while
\* the wait slot names it and it has not been woken.
Blocked(t) ==
    waiting = t /\ thr[t].pc = "read" /\ current # t /\ Count(ready, t) = 0

C2_OneSituation ==
    \A t \in DOMAIN thr \ {Idle} :
        /\ Count(ready, t) <= 1
        /\ ~(current = t /\ Count(ready, t) > 0)
        /\ ~(Blocked(t) /\ current = t)

\* C3: every dispatch takes the head of the ready queue as it was before the
\* handler ran (what the handler itself enqueues goes behind it), and the
\* CPU is switched to the idle thread only when the pop found the queue empty
C3_Fifo ==
    [][lastOp'.picked # None =>
         /\ (ready # <<>> => lastOp'.picked = Head(ready))
         /\ ((lastOp'.picked = Idle /\ lastOp'.switched) => ~lastOp'.from_queue)]_vars

\* C4: whenever the idle thread is dispatched, no other thread is waiting in
\* the ready queue
C4_IdleLast ==
    [][(lastOp'.picked = Idle /\ lastOp'.switched) =>
         \A i \in 1..Len(ready') : ready'[i] = Idle]_vars

\* C5: a fork that returns gives the parent a pid that is positive and new to
\* the process table, leaves the parent running, and puts the child's thread
\* on the ready queue exactly once; a forked thread leaves forked_entry only
\* by being dispatched, and then finds 0 as its result
C5_ForkReturns ==
    [][/\ (lastOp'.op = "fork" /\ halted' = "no") =>
            /\ lastOp'.ret > 0
            /\ lastOp'.ret \notin DOMAIN procs
            /\ lastOp'.ret \in DOMAIN procs'
            /\ thr'[current].ret = lastOp'.ret
            /\ current' = current
            /\ thr'[current].pc = "user"
            /\ LET c == procs'[lastOp'.ret].thread IN
               /\ c \notin DOMAIN thr
               /\ thr'[c].pc = "forked"
               /\ thr'[c].process = lastOp'.ret
               /\ Count(ready, c) = 0
               /\ Count(ready', c) = 1
       /\ \A t \in DOMAIN thr :
            (thr[t].pc = "forked" /\ thr'[t].pc # "forked") =>
                current' = t /\ thr'[t].pc = "user" /\ thr'[t].ret = 0]_vars

\* a child runs user code with result 0 while its parent holds the child's pid
C5_Witness ==
    \E t \in DOMAIN thr \ {Idle} :
        /\ current = t
        /\ thr[t].pc = "user"
        /\ thr[t].ret = 0
        /\ thr[t].process # 1
        /\ lastOp.picked = t
        /\ thr[procs[1].thread].ret = thr[t].process

\* ---------------------------------------------------------------- memory claims

\* brk to k pages above the caller's initial break
SysBrkBy(k) == UserMode /\ SysBrk(procs[Me].brk_initial + k * PageSize)

\* a store to the page of the caller's initial break (k = 0) or to the k-th
\* page above it
StoreAboveBrk(k, val) ==
    UserMode /\ UserWrite(PageOf(procs[Me].brk_initial) + k, val)

\* address spaces: processes exec, fork, move their break and store to memory
NextMem ==
    \/ Timer
    \/ SysFork
    \/ SysExecve(StackTop, HiddenPath, StackTop, 1)
    \/ \E k \in 0..MaxBrkPages : SysBrkBy(k)
    \/ \E k \in 0..MaxBrkPages : StoreAboveBrk(k, 77)

SpecMem == Init /\ [][NextMem]_vars

\* the pages of the lower half
LowerPages == 0..(PageOf(UserEnd) - 1)

\* the pages user code of an address space can reach
UserPages(pt, root) == {v \in LowerPages : Grants(pt, root, v, "U")}

\* what an address space shows at a page
View(pt, d, root, v) == d[FrameAt(pt, root, v)]

\* C6: when fork returns, every user page of the parent is a user page of the
\* child with the same contents in another frame; and a store of a process
\* leaves what every other process sees at its user pages as it was
C6_ForkCopies ==
    [][/\ (lastOp'.op = "fork" /\ halted' = "no") =>
            \A v \in UserPages(ptab', Root(procs', lastOp'.pid)) :
                /\ Grants(ptab', Root(procs', lastOp'.ret), v, "U")
                /\ View(ptab', data', Root(procs', lastOp'.ret), v)
                     = View(ptab', data', Root(procs', lastOp'.pid), v)
                /\ FrameAt(ptab', Root(procs', lastOp'.ret), v)
                     # FrameAt(ptab', Root(procs', lastOp'.pid), v)
       /\ lastOp'.op = "store" =>
            \A q \in DOMAIN procs \ {lastOp'.pid} :
                \A v \in UserPages(ptab, Root(procs, q)) :
                    View(ptab', data', Root(procs', q), v)
                      = View(ptab, data, Root(procs, q), v)]_vars

\* C8: no frame is in the frame lists of two processes, and every frame in a
\* frame list is marked used in the bitmap
C8_FramesDisjoint ==
    /\ \A p, q \in DOMAIN procs :
         p # q => Range(procs[p].frames) \cap Range(procs[q].frames) = {}
    /\ \A p \in DOMAIN procs :
         \A f \in Range(procs[p].frames) : FrameUsed(bitmap, f)

\* two processes hold frames and a break was shrunk: a frame is free again
\* below a frame that a process still lists
C8_Witness ==
    /\ halted = "no"
    /\ Cardinality(DOMAIN procs) >= 2
    /\ lastOp.op = "brk"
    /\ \E p \in DOMAIN procs :
         \E g \in Range(procs[p].frames) :
            \E f \in Frames : f < g /\ ~FrameUsed(bitmap, f)

\* C9: every user page of every process is backed by a frame of that
\* process's frame list
C9_MappedFramesListed ==
    halted = "no" =>
        \A p \in DOMAIN procs :
            \A v \in UserPages(ptab, Root(procs, p)) :
                FrameAt(ptab, Root(procs, p), v) \in Range(procs[p].frames)

\* ---------------------------------------------------------------- descriptor claims

\* a write that keeps the offset of the descriptor within the bound
WriteWithin(fd, buf, n) ==
    /\ UserMode
    /\ fd \in DOMAIN procs[Me].files
    /\ desc[procs[Me].files[fd]].offset + n <= MaxOffset
    /\ SysWrite(fd, buf, n)

\* descriptors: processes open the console and a file, fork, read and write
NextFd ==
    \/ Timer
    \/ Keyboard(10)
    \/ SysFork
    \/ SysOpen(StackTop, ConsolePath, O_RDWR)
    \/ SysOpen(StackTop, HelloPath, O_RDONLY)
    \/ \E fd \in 0..(MaxDesc - 1) : SysRead(fd, StackTop, 2)
    \/ \E fd \in 0..(MaxDesc - 1) : WriteWithin(fd, StackTop, 2)
    \/ ReadRun

SpecFd == Init /\ [][NextFd]_vars

\* the count a step returned through a descriptor
Returned(d) ==
    IF lastOp'.obj = d /\ lastOp'.op \in {"read", "read_run", "write"} /\ lastOp'.ret >= 0
    THEN lastOp'.ret ELSE 0

\* C7: the child of a fork gets the parent's descriptor table with the same
\* descriptor objects behind it, and in every step the offset of every
\* descriptor grows by exactly the count that the step returned through it
C7_SharedOffsets ==
    [][/\ (lastOp'.op = "fork" /\ halted' = "no") =>
            procs'[lastOp'.ret].files = procs[lastOp'.pid].files
       /\ \A d \in 1..Len(desc) :
            desc'[d].offset = desc[d].offset + Returned(d)]_vars

\* the child got a count through a descriptor it shares with its parent, whose
\* offset had been advanced before
C7_Witness ==
    /\ lastOp.pid = 2
    /\ lastOp.op \in {"read", "read_run", "write"}
    /\ lastOp.ret > 0
    /\ \E fd \in DOMAIN procs[1].files :
         /\ fd \in DOMAIN procs[2].files
         /\ procs[1].files[fd] = lastOp.obj
         /\ procs[2].files[fd] = lastOp.obj
    /\ desc[lastOp.obj].offset > lastOp.ret

\* ---------------------------------------------------------------- PMM claims

\* a region of the memory map, in frames
Region(first, end, usable) ==
    [start |-> first * PageSize, end |-> end * PageSize, usable |-> usable]

\* memory maps a bootloader can hand over: the boot machine's; nearly no free
\* memory; usable memory first; a hole between the regions; a region that
\* ends inside a page; free memory in the second bitmap word only; a map too
\* small for one bitmap word; a top region the bitmap has no word for
MemoryMaps ==
    {BootRegions,
     <<Region(0, 60, FALSE), Region(60, 62, TRUE), Region(62, 64, TRUE)>>,
     <<Region(0, 4, TRUE), Region(4, 8, FALSE), Region(8, 64, TRUE)>>,
     <<Region(0, 2, TRUE), Region(6, 8, FALSE), Region(8, 64, TRUE)>>,
     <<Region(0, 2, TRUE),
       [start |-> 2 * PageSize, end |-> 6 * PageSize + HalfPage, usable |-> TRUE],
       [start |-> 6 * PageSize + HalfPage, end |-> 64 * PageSize, usable |-> FALSE]>>,
     <<Region(0, 2, TRUE), Region(2, 64, FALSE), Region(64, 128, TRUE)>>,
     <<Region(0, 8, FALSE), Region(8, 32, TRUE)>>,
     <<Region(0, 8, TRUE), Region(8, 64, TRUE), Region(64, 100, FALSE)>>}

\* the machine right after PhysicalMemoryManager::new: nothing else exists
InitPmm ==
    /\ regions \in MemoryMaps
    /\ pmmOk = PmmNew(regions).ok
    /\ bitmap = PmmNew(regions).bitmap
    /\ held = {}
    /\ lastFrame = None
    /\ ptab = <<>> /\ data = <<>> /\ procs = <<>> /\ nextPid = 1
    /\ thr = <<>> /\ nextTid = 0 /\ ready = <<>> /\ current = None
    /\ waiting = None /\ scancodes = <<>> /\ pending = <<>> /\ desc = <<>>
    /\ halted = "no" /\ keys = 0
    /\ cpu = [cr3 |-> None, ist |-> None, next_thread |-> None, fs |-> 0,
              hook |-> "none", locks |-> {}, stepwise |-> FALSE]
    /\ lastOp = NoOp

\* a caller takes a frame
PmmAllocate ==
    /\ pmmOk
    /\ Cardinality(held) < MaxHeld
    /\ LET a == allocate_frame(bitmap) IN
       /\ bitmap' = a.bitmap
       /\ lastFrame' = a.frame
       /\ held' = IF a.frame = None THEN held ELSE held \cup {a.frame}
       /\ lastOp' = [NoOp EXCEPT !.op = "alloc", !.ret = a.frame]
    /\ UNCHANGED <<pmmOk, regions, ptab, data, procs, nextPid, desc, schedVars,
                   waiting, devVars, halted>>

\* a caller gives back a frame it holds
PmmDeallocate(f) ==
    /\ pmmOk
    /\ f \in held
    /\ bitmap' = deallocate_frame(bitmap, f)
    /\ held' = held \ {f}
    /\ lastOp' = [NoOp EXCEPT !.op = "free", !.arg = f]
    /\ UNCHANGED <<pmmOk, regions, lastFrame, ptab, data, procs, nextPid, desc,
                   schedVars, waiting, devVars, halted>>

NextPmm ==
    \/ PmmAllocate
    \/ \E f \in held : PmmDeallocate(f)

SpecPmm == InitPmm /\ [][NextPmm]_vars

\* the regions allocate_frame must keep away from: the non-usable ones and
\* the one that stores the bitmap
Reserved(rs) ==
    UNION {RegionFrames(rs[i]) :
             i \in {j \in 1..Len(rs) : ~rs[j].usable \/ j = PmmNew(rs).bitmap_region}}

\* C10: a frame that allocate_frame returns is not held by a caller, lies in
\* no non-usable region and not in the region of the bitmap, and is marked
\* used afterwards
C10_AllocateFresh ==
    [][(lastOp'.op = "alloc" /\ lastFrame' # None) =>
         /\ lastFrame' \notin held
         /\ lastFrame' \notin Reserved(regions)
         /\ FrameUsed(bitmap', lastFrame')]_vars

\* a frame was given back and handed out again while others are still held
C10_Witness ==
    /\ lastOp.op = "alloc"
    /\ lastFrame # None
    /\ Cardinality(held) >= 2
    /\ \E f \in held : f > lastFrame
    /\ Reserved(regions) # {}

\* ---------------------------------------------------------------- system call claims

\* a canonical address of the kernel half, a word with only bit 63 set, and a
\* word with only the top translated bit set
KernelPtr == WordEnd - UserEnd
HighPtr == SignBit
SignPtr == UserEnd

Pointers == {StackTop, KernelPtr, HighPtr, SignPtr}

\* buffers: null and the pointers as bases; as counts nothing, two bytes,
\* 1 << 63, the count that takes the end of a stack buffer to 0, and u64::MAX
Bases == {0} \cup Pointers
Counts == {0, 2, SignBit, WordEnd - StackTop, WordEnd - 1}
MissingPath == <<"/", "init", "/", "nothing">>
DirPath == <<"/", "dev">>
RootPath == <<"/">>
Paths == {ConsolePath, HelloPath, MissingPath, DirPath, RootPath}

\* one process and its system calls on files, with every kind of pointer,
\* path, access mode and descriptor number; no interrupt arrives
NextSys ==
    \/ \E p \in Pointers : SysOpen(p, ConsolePath, O_RDWR)
    \/ \E path \in Paths, fl \in {O_RDONLY, O_WRONLY, O_RDWR} :
          SysOpen(StackTop, path, fl)
    \/ \E fd \in 0..MaxDesc, p \in {StackTop, KernelPtr, HighPtr}, n \in {0, 2} :
          SysRead(fd, p, n) \/ WriteWithin(fd, p, n)
    \/ \E b \in Bases, n \in Counts : SysRead(0, b, n)
    \/ \E b \in Bases, n \in Counts \ {2} : SysWrite(0, b, n)
    \/ \E fd \in 0..MaxDesc : SysClose(fd)
    \/ \E p \in Pointers : SysExecve(p, BadPath, StackTop, 1)
    \/ \E path \in {SmallPath, HelloPath} : SysExecve(StackTop, path, StackTop, 1)
    \/ \E p \in Pointers : SysExecve(StackTop, BadPath, p, 1)
    \/ \E op \in {ARCH_SET_FS, ARCH_SET_FS + 1}, p \in Pointers : SysArchPrctl(op, p)

SpecSys == Init /\ [][NextSys]_vars

\* the steps a call with the pointer p can take: read and write with p as the
\* buffer, open with p as the path name, execve with p as the file name or as
\* the argument vector, arch_prctl(ARCH_SET_FS) with p as the address
CallWith(p) ==
    \/ \E fd \in 0..MaxDesc, n \in {0, 2} : SysRead(fd, p, n) \/ WriteWithin(fd, p, n)
    \/ SysOpen(p, ConsolePath, O_RDWR)
    \/ SysExecve(p, BadPath, StackTop, 1)
    \/ SysExecve(StackTop, BadPath, p, 1)
    \/ SysArchPrctl(ARCH_SET_FS, p)

\* C12: every system call that takes a user pointer (read, write, open,
\* execve, arch_prctl with ARCH_SET_FS) returns -EFAULT when the pointer has
\* bit 63 set, and then consumes no bytes and changes no process state
\* (descriptor table, descriptor offsets, mappings, FS base)
C12_KernelPointerFaults ==
    [][\A p \in {KernelPtr, HighPtr} :
         CallWith(p) =>
            /\ halted' = "no"
            /\ lastOp'.ret = 0 - EFAULT
            /\ UNCHANGED <<procs, desc, ptab, cpu, scancodes, pending>>]_vars

\* C13: the buffer check of read and write accepts (base, count) exactly when
\* the whole byte range [base, base + count] lies in the lower half: a
\* zero-length buffer with a valid base is accepted, every buffer whose range
\* contains an address with bit 63 set is rejected with -EFAULT, for every
\* 64-bit base and count, those where base + count overflows included
C13_BufferCheck ==
    [][\A b \in Bases, n \in Counts :
         (SysRead(0, b, n) \/ SysWrite(0, b, n)) =>
            ((halted' = "no" /\ lastOp'.ret = 0 - EFAULT) <=> b + n >= SignBit)]_vars

\* access modes: processes open the console and a file in every access mode,
\* fork, read and write; no key is pressed
NextMode ==
    \/ Timer
    \/ SysFork
    \/ \E path \in {ConsolePath, HelloPath}, fl \in {O_RDONLY, O_WRONLY, O_RDWR} :
          SysOpen(StackTop, path, fl)
    \/ \E fd \in 0..MaxDesc : SysRead(fd, StackTop, 2)
    \/ \E fd \in 0..MaxDesc : WriteWithin(fd, StackTop, 2)

SpecMode == Init /\ [][NextMode]_vars

\* the access mode of the caller's descriptor fd, None without a descriptor
ModeOf(fd) ==
    IF fd \in DOMAIN procs[Me].files
    THEN desc[procs[Me].files[fd]].flags % (O_ACCMODE + 1)
    ELSE None

\* C14: read on an fd that is not in the calling process's table, or whose
\* access mode is O_WRONLY, returns -EBADF; write on an fd that is not in the
\* table, or whose access mode is O_RDONLY, returns -EBADF; in these cases the
\* filesystem is not called and no descriptor offset changes
C14_BadDescriptor ==
    [][\A fd \in 0..MaxDesc :
         (\/ SysRead(fd, StackTop, 2) /\ ModeOf(fd) \in {None, O_WRONLY}
          \/ SysWrite(fd, StackTop, 2) /\ ModeOf(fd) \in {None, O_RDONLY}) =>
            /\ halted' = "no"
            /\ lastOp'.ret = 0 - EBADF
            /\ UNCHANGED <<desc, data, scancodes, pending>>]_vars

\* C15: a successful read advances only the offset of the descriptor object
\* it was called on, by exactly the number of bytes returned, and a write on
\* the console never changes the offset of any other descriptor; descriptors
\* opened separately, even on the same inode, keep independent offsets
C15_OwnOffsetOnly ==
    [][(halted' = "no" /\ lastOp'.obj # None /\ lastOp'.ret >= 0) =>
         /\ lastOp'.op \in {"read", "read_run"} =>
               \A d \in DOMAIN desc :
                  desc'[d].offset =
                     desc[d].offset + (IF d = lastOp'.obj THEN lastOp'.ret ELSE 0)
         /\ (lastOp'.op = "write" /\ desc[lastOp'.obj].inode = Console) =>
               \A d \in DOMAIN desc \ {lastOp'.obj} :
                  desc'[d].offset = desc[d].offset]_vars

\* a read returned bytes through one of two descriptors of the same inode,
\* and the two offsets differ
C15_Witness ==
    /\ halted = "no" /\ lastOp.op \in {"read", "read_run"} /\ lastOp.ret > 0
    /\ \E d \in DOMAIN desc \ {lastOp.obj} :
          /\ desc[d].inode = desc[lastOp.obj].inode
          /\ desc[d].offset # desc[lastOp.obj].offset

\* C16: each successful open returns the current value of the process's
\* next-fd counter, installs at that number a new descriptor with offset 0
\* and the given flags, and increments the counter; every fd in a table is
\* below the counter and the counter never goes down, so the fds of
\* successive opens are distinct and increasing, and none is handed out
\* twice even after close, which returns 0 and leaves the table unchanged
C16_OpenClose ==
    [][/\ \A pid \in DOMAIN procs : \A fd \in DOMAIN procs[pid].files :
             fd < procs[pid].next_fd
       /\ \A pid \in DOMAIN procs \cap DOMAIN procs' :
             procs'[pid].next_fd >= procs[pid].next_fd
       /\ (lastOp'.op = "open" /\ halted' = "no") =>
             LET pid == lastOp'.pid
                 fd == lastOp'.ret
                 new == procs'[pid].files IN
             /\ fd = procs[pid].next_fd
             /\ thr'[lastOp'.tid].ret = fd
             /\ procs'[pid].next_fd = fd + 1
             /\ DOMAIN new = DOMAIN procs[pid].files \cup {fd}
             /\ \A g \in DOMAIN procs[pid].files : new[g] = procs[pid].files[g]
             /\ new[fd] \notin DOMAIN desc
             /\ desc'[new[fd]].offset = 0
             /\ desc'[new[fd]].flags = lastOp'.arg
             /\ \A d \in DOMAIN desc : desc'[d] = desc[d]
       /\ lastOp'.op = "close" =>
             /\ lastOp'.ret = 0 /\ thr'[lastOp'.tid].ret = 0 /\ halted' = "no"
             /\ UNCHANGED <<procs, desc>>]_vars

\* the second open of a process returned 1, with write-only flags
C16_Witness ==
    /\ halted = "no" /\ lastOp.op = "open" /\ lastOp.ret = 1
    /\ lastOp.arg = O_WRONLY
    /\ DOMAIN procs[lastOp.pid].files = {0, 1}

\* the caller's descriptor fd is open in the access mode m or for both, on an
\* inode of the kind k
OpenOn(fd, m, k) ==
    /\ ModeOf(fd) \in {m, O_RDWR}
    /\ desc[procs[Me].files[fd]].inode.kind = k

\* C17: filesystem errors met inside a system call are mapped to a negative
\* errno returned to user space: open on a path that traversal does not find
\* returns -ENOENT, and open, read or write on an inode of the wrong type
\* returns -EINVAL or -EISDIR; the kernel keeps running and the descriptor
\* table and the next-fd counter are unchanged
C17_ErrnoMapping ==
    [][/\ (\E fl \in {O_RDONLY, O_WRONLY, O_RDWR} : SysOpen(StackTop, MissingPath, fl)) =>
            /\ halted' = "no" /\ lastOp'.ret = 0 - ENOENT
            /\ UNCHANGED <<procs, desc>>
       /\ (\/ \E fl \in {O_RDONLY, O_WRONLY, O_RDWR} : SysOpen(StackTop, DirPath, fl)
           \/ \E fd \in 0..MaxDesc :
                 \/ SysRead(fd, StackTop, 2) /\ OpenOn(fd, O_RDONLY, "Directory")
                 \/ SysWrite(fd, StackTop, 2) /\ OpenOn(fd, O_WRONLY, "Directory")
                 \/ SysWrite(fd, StackTop, 2) /\ OpenOn(fd, O_WRONLY, "File")) =>
            /\ halted' = "no" /\ lastOp'.ret \in {0 - EINVAL, 0 - EISDIR}
            /\ UNCHANGED <<procs, desc>>]_vars

\* C22: after brk grows the break, the call returns the new break and every
\* byte read from the pages it mapped is zero, whatever the frames handed
\* out by the PMM were used for before (frames freed earlier by a brk shrink
\* included)
C22_GrownZero ==
    [][(lastOp'.op = "brk" /\ halted' = "no"
          /\ procs'[lastOp'.pid].brk > procs[lastOp'.pid].brk) =>
         LET pid == lastOp'.pid IN
         /\ lastOp'.ret = lastOp'.arg /\ procs'[pid].brk = lastOp'.arg
         /\ \A v \in (PageOf(procs[pid].brk) + 1)..PageOf(procs'[pid].brk) :
               View(ptab', data', Root(procs', pid), v) = <<0, 0>>]_vars

\* the keys a console read finds: the pending input, then what the queued
\* scancodes decode to
Received == pending \o SelectSeq(scancodes, LAMBDA k : k # 0)

\* a line as it is handed out: EOF replaced by NUL
Nul(bytes) == [i \in 1..Len(bytes) |-> IF bytes[i] = 4 THEN 0 ELSE bytes[i]]

\* what the user buffer at the stack top holds in an address space
BufferIn(dt, pt, root) == dt[FrameAt(pt, root, PageOf(StackTop))][HalfOf(StackTop)]

\* C26: a console read blocks exactly when none of these holds: the keys
\* received fill the buffer, a newline is among them, an EOF (0x04) is among
\* them; a read that returns hands out the head of the received keys, every
\* EOF in it as a NUL byte that is counted
C26_ConsoleBlocks ==
    [][(lastOp'.op \in {"read", "read_run"} /\ halted' = "no"
          /\ (lastOp'.ret = None \/ lastOp'.ret >= 0)) =>
         LET n == lastOp'.arg
             got == Received IN
         /\ (lastOp'.ret = None) <=>
               ~(Len(got) >= n \/ 10 \in Range(got) \/ 4 \in Range(got))
         /\ lastOp'.ret > 0 =>
               /\ lastOp'.ret <= Len(got)
               /\ BufferIn(data', ptab', thr'[lastOp'.tid].cr3_frame)
                    = Encode(Nul(SubSeq(got, 1, lastOp'.ret)))]_vars

\* C27: a thread is blocked in read(console, buf, 16) and the keys a, b and
\* newline are what the keyboard delivered, nothing after them: with the
\* timer firing the waiter, which the keyboard re-enqueued, is dispatched and
\* its read returns 3 with "ab\n" in the buffer
LineTyped == <<97, 98, 10>>

LineWaited ==
    /\ halted = "no" /\ keys = MaxLine /\ Received = LineTyped
    /\ \E t \in DOMAIN thr : thr[t].pc \in {"read", "read_run"} /\ thr[t].rd_len = LineLen

LineReturned ==
    /\ halted = "no" /\ pending = <<>> /\ scancodes = <<>>
    /\ \E t \in DOMAIN thr :
          /\ thr[t].pc = "user" /\ thr[t].rd_len = LineLen
          /\ thr[t].ret = Len(LineTyped)
          /\ BufferIn(data, ptab, thr[t].cr3_frame) = Encode(LineTyped)

C27_LineDelivered == LineWaited ~> LineReturned

\* the reader that waited is back in user mode with the line
C27_Witness ==
    /\ LineReturned /\ keys = MaxLine /\ waiting # None
    /\ lastOp.op = "read_run" /\ lastOp.arg = LineLen /\ lastOp.ret = Len(LineTyped)

\* a console read takes its step with nothing pending and a newline, alone,
\* in the scancode queue
EmptyLineRead ==
    /\ lastOp'.op \in {"read", "read_run"} /\ halted' = "no"
    /\ (lastOp'.ret = None \/ lastOp'.ret >= 0)
    /\ pending = <<>> /\ Received = <<10>>

\* C28 as stated: when the console has no pending input and a newline is
\* received, read on the console returns a length of 0 with success
C28_EmptyLineZero == [][EmptyLineRead => lastOp'.ret = 0]_vars

\* C28: when the console has no pending input and a newline is received,
\* read on the console returns with success the newline itself: length 1 and
\* the byte 10 in the buffer, nothing left pending (length 0 only for a
\* buffer of length 0, which takes nothing from the queue)
C28_EmptyLineOne ==
    [][EmptyLineRead =>
         IF lastOp'.arg = 0
         THEN lastOp'.ret = 0 /\ scancodes' = scancodes /\ pending' = <<>>
         ELSE /\ lastOp'.ret = 1
              /\ BufferIn(data', ptab', thr'[lastOp'.tid].cr3_frame) = Encode(<<10>>)
              /\ pending' = <<>> /\ scancodes' = <<>>]_vars

\* a reader that waited on the empty console got the newline
C28_Witness ==
    /\ lastOp.op = "read_run" /\ lastOp.ret = 1 /\ lastOp.arg = LineLen
    /\ halted = "no" /\ keys = 1 /\ pending = <<>> /\ scancodes = <<>>
    /\ BufferIn(data, ptab, thr[lastOp.tid].cr3_frame) = Encode(<<10>>)

\* C29: the scancode ring never holds more than its capacity; a push onto a
\* full ring drops the oldest scancode and keeps the new one, a push onto a
\* ring with room appends, and the push always completes; a console read
\* takes the surviving scancodes in arrival order: what it hands out and what
\* it leaves pending and queued is what was received, in the same order
C29_RingLossy ==
    /\ [](Len(scancodes) <= QueueCap)
    /\ [][/\ lastOp'.op = "key" =>
               /\ halted' = "no"
               /\ scancodes' = (IF Len(scancodes) = QueueCap
                                THEN Append(Tail(scancodes), lastOp'.arg)
                                ELSE Append(scancodes, lastOp'.arg))
               /\ pending' = pending
          /\ (lastOp'.op \in {"read", "read_run"} /\ halted' = "no"
                /\ (lastOp'.ret = None \/ lastOp'.ret >= 0)) =>
               LET count == IF lastOp'.ret = None THEN 0 ELSE lastOp'.ret IN
               /\ count <= Len(Received)
               /\ Received' = SubSeq(Received, count + 1, Len(Received))
               /\ count > 0 =>
                     BufferIn(data', ptab', thr'[lastOp'.tid].cr3_frame)
                       = Encode(SubSeq(Received, 1, count))]_vars

\* the ring is full after a push that dropped the oldest scancode, the 'b'
C29_Witness ==
    /\ lastOp.op = "key" /\ halted = "no" /\ keys = MaxLine
    /\ Len(scancodes) = QueueCap /\ 98 \notin Range(scancodes)
    /\ scancodes[QueueCap] = lastOp.arg /\ pending = <<>> /\ desc = <<>>

\* a traversal that goes on from the result of another one, or stops at its error
Through(first, rest) ==
    IF first.err # "ok" THEN first ELSE traverse_fs(first.inode, rest)

\* a path without its leading, trailing and repeated separators
Squeeze(path) ==
    LET keep == {i \in 1..Len(path) :
                   path[i] # "/" \/ (/\ i > 1 /\ path[i - 1] # "/"
                                     /\ \E j \in (i + 1)..Len(path) : path[j] # "/")}
        RECURSIVE Pick(_)
        Pick(i) == IF i > Len(path) THEN <<>>
                   ELSE IF i \in keep THEN <<path[i]>> \o Pick(i + 1) ELSE Pick(i + 1) IN
    Pick(1)

\* C30: path traversal is compositional and ignores empty segments: the
\* traversal of a path is the traversal of what follows a separator from the
\* result of the traversal of what precedes it; paths that differ only in
\* leading, trailing or repeated separators give the same result; the empty
\* path and "/" give the starting inode; a segment that names a mount, from
\* the root, gives the root inode of the mounted filesystem
C30_TraverseComposes ==
    lastOp.op = "traverse" =>
       LET root == lastOp.obj
           path == lastOp.arg
           res == lastOp.ret IN
       /\ \A k \in 1..Len(path) :
             path[k] = "/" =>
                res = Through(traverse_fs(root, SubSeq(path, 1, k - 1)),
                              SubSeq(path, k + 1, Len(path)))
       /\ res = traverse_fs(root, Squeeze(path))
       /\ Squeeze(path) = <<>> => res = Ok(root)
       /\ \A m \in 1..Len(Mounts) :
             (root = VfsRoot /\ Squeeze(path) = <<Mounts[m].name>>) =>
                /\ res.err = "ok" /\ res.inode.kind = "Directory"
                /\ res.inode.dev = Mounts[m].dev /\ res.inode.inode = Mounts[m].inode
                /\ res.inode # VfsRoot

\* a path with a leading and a repeated separator led from the root through
\* a mount to the console
C30_Witness ==
    /\ lastOp.op = "traverse" /\ lastOp.obj = VfsRoot
    /\ lastOp.arg = <<"/", "dev", "/", "/", "console">>
    /\ lastOp.ret = Ok(Console)

\* the thread a switch in progress is bringing in
Incoming == IF cpu.next_thread # None THEN cpu.next_thread ELSE current

\* C31: during a context switch the outgoing thread's lock is not released
\* before the incoming thread's page-table frame is in CR3 and its kernel
\* stack is the TSS privilege stack; the release is a step of the finish hook
C31_UnlockAfterInstall ==
    [][\A t \in DOMAIN thr :
          (ThreadLock(t) \in cpu.locks /\ ThreadLock(t) \notin cpu'.locks) =>
             /\ cpu.hook # "none" /\ lastOp'.op = "hook_unlock"
             /\ cpu.ist = Incoming
             /\ (thr[Incoming].cr3_frame # None => cpu.cr3 = thr[Incoming].cr3_frame)]_vars

\* the steps that end in yield_execution with the caller in the
\* current-thread slot
YieldOps == {"timer", "exit", "exit_run", "read", "read_run"}

\* C32: yield_execution performs no switch when the popped thread (or the
\* idle fallback) is the current thread; otherwise, once the finish hook is
\* through, the current-thread slot holds the selected thread, the
\* next-thread slot is empty, no thread lock is held, the TSS privilege stack
\* is the current thread's kernel stack, and CR3 holds the current thread's
\* page-table frame when it has one; the next-thread slot is non-empty only
\* between the selection and the end of the finish hook
C32_SwitchComplete ==
    /\ [](cpu.next_thread # None => cpu.hook \in {"switch", "unlocked"})
    /\ []((cpu.hook = "none" /\ current # None) =>
             /\ cpu.locks = {} /\ cpu.ist = current
             /\ (thr[current].cr3_frame # None => cpu.cr3 = thr[current].cr3_frame))
    /\ [][/\ (lastOp'.op \in YieldOps /\ lastOp'.picked # None
               /\ lastOp'.picked = current) =>
               /\ ~lastOp'.switched /\ current' = current
               /\ cpu' = cpu /\ Len(ready') <= Len(ready)
          /\ (lastOp'.op \in YieldOps \cup {"execve"} /\ lastOp'.picked # None
               /\ (lastOp'.picked # current \/ lastOp'.op = "execve")
               /\ halted' = "no") =>
               /\ lastOp'.switched /\ cpu'.next_thread = lastOp'.picked
               /\ cpu'.hook = "switch"
          /\ lastOp'.op = "hook_cr3" =>
               /\ current' = lastOp'.picked /\ cpu'.next_thread = None
               /\ cpu'.locks = {} /\ cpu'.ist = current' /\ cpu'.hook = "none"
               /\ (thr'[current'].cr3_frame # None =>
                     cpu'.cr3 = thr'[current'].cr3_frame)
               /\ (thr'[current'].cr3_frame = None => cpu'.cr3 = cpu.cr3)]_vars

\* the finish hook is through after a switch to a forked child: the child
\* is the current thread, on its kernel stack and its page tables
C32_Witness ==
    /\ lastOp.op = "hook_cr3" /\ halted = "no" /\ cpu.hook = "none"
    /\ current = lastOp.picked /\ current # Idle /\ thr[current].process # 1
    /\ cpu.next_thread = None /\ cpu.locks = {} /\ cpu.ist = current
    /\ cpu.cr3 = thr[current].cr3_frame /\ cpu.cr3 # BootMem.root

\* the loader: processes fork and exec images of one segment over one page,
\* of one segment over two pages of file, and of two segments that meet on a
\* page boundary
LoadPaths == {InitPath, WidePath, JoinedPath}

NextLoad ==
    \/ Timer
    \/ SysFork
    \/ \E path \in LoadPaths : SysExecve(StackTop, path, StackTop, 1)
    \/ SysExit

SpecLoad == Init /\ [][NextLoad]_vars

\* the pages that cover the half-open range [vaddr, vaddr + memsz) of a header
SegPages(h) == {pg \in PageOf(h.vaddr)..PageOf(h.vaddr + h.memsz) :
                  pg * PageSize < h.vaddr + h.memsz}

\* the file bytes of the k-th page of a segment, k from 0, in chunks
FilePage(bin, h, k) ==
    SubSeq(SegContents(bin, h), 2 * k + 1, Min(2 * k + 2, Len(SegContents(bin, h))))

\* the first chunks of the frame mapped at a page are the chunks given
FrameHolds(dt, pt, root, page, chunks) ==
    /\ Mapped(pt, root, page)
    /\ \A j \in 1..Len(chunks) : dt[FrameAt(pt, root, page)][j] = chunks[j]

\* C34: for every PT_LOAD segment and every page of it, the frame execve maps
\* at that page holds the bytes of the file image for that page's position:
\* the k-th page holds the segment's file bytes from offset k*4096 on, up to
\* file_size, for segments of any number of pages
C34_PageHoldsItsBytes ==
    [][\A path \in LoadPaths :
         (SysExecve(StackTop, path, StackTop, 1) /\ lastOp'.ret = 0) =>
           \A n \in 1..Len(ReadBinary(path).bin.headers) :
             \A pg \in SegPages(ReadBinary(path).bin.headers[n]) :
               FrameHolds(data', ptab', Root(procs', lastOp'.pid), pg,
                          FilePage(ReadBinary(path).bin,
                                   ReadBinary(path).bin.headers[n],
                                   pg - PageOf(ReadBinary(path).bin.headers[n].vaddr)))]_vars

\* the pages of all the PT_LOAD headers of an image
ImagePages(bin) ==
    UNION {SegPages(bin.headers[n]) : n \in 1..Len(bin.headers)}

\* C35: for every PT_LOAD header the pages execve allocates and maps are
\* exactly the 4 KiB pages that cover [vaddr, vaddr + mem_size), also when
\* vaddr + mem_size is page-aligned: two segments of which one ends on the
\* page boundary where the next starts are loaded with every page mapped once
C35_PagesOfSegment ==
    [][\A path \in LoadPaths :
         (/\ SysExecve(StackTop, path, StackTop, 1)
          /\ ~process_execve(MemState, Me, ReadBinary(path).bin, 1).st.oom) =>
           /\ halted' = "no" /\ lastOp'.ret = 0
           /\ \A n \in 1..Len(ReadBinary(path).bin.headers) :
                \A pg \in PageOf(ReadBinary(path).bin.headers[n].vaddr)
                              ..PageOf(ReadBinary(path).bin.headers[n].vaddr
                                       + ReadBinary(path).bin.headers[n].memsz) :
                  Mapped(ptab', Root(procs', lastOp'.pid), pg)
                    <=> pg \in ImagePages(ReadBinary(path).bin)]_vars

\* files of the ramdisk: processes fork, open a file for reading and writing
\* and read it in pieces of every length up to more than the file, and write
ReadLens == 0..MaxOffset

NextRam ==
    \/ Timer
    \/ SysFork
    \/ SysOpen(StackTop, HelloPath, O_RDWR)
    \/ \E fd \in 0..(MaxDesc - 1), n \in ReadLens : SysRead(fd, StackTop, n)
    \/ \E fd \in 0..(MaxDesc - 1) : SysWrite(fd, StackTop, 2)

SpecRam == Init /\ [][NextRam]_vars

\* the bytes of a file of the ramdisk
Contents(inode) == RamFiles[inode.inode].bytes

\* C36: a read on a file of the ramdisk copies exactly n = min(buf.len,
\* size - offset) bytes, the bytes contents[offset .. offset + n], and returns
\* n (0 at offset = size); successive reads through one descriptor return the
\* file's bytes in order without gaps or repeats (each read starts where the
\* one before it ended), and the offset of a descriptor never exceeds the
\* size of its file; a write on an inode of the ramdisk fails with the
\* wrong-type error and changes nothing
C36_RamdiskRead ==
    /\ [](\A d \in DOMAIN desc :
            desc[d].inode.dev = 2 => desc[d].offset <= desc[d].inode.size)
    /\ [][\A fd \in 0..(MaxDesc - 1), n \in ReadLens :
            (/\ SysRead(fd, StackTop, n)
             /\ fd \in DOMAIN procs[Me].files
             /\ desc[procs[Me].files[fd]].inode.dev = 2) =>
              \E d \in {procs[Me].files[fd]} :
              \E m \in {Min(n, desc[d].inode.size - desc[d].offset)} :
                /\ halted' = "no" /\ lastOp'.ret = m
                /\ thr'[lastOp'.tid].ret = m
                /\ desc'[d].offset = desc[d].offset + m
                /\ desc' = [desc EXCEPT ![d].offset = @ + m]
                /\ m > 0 => BufferIn(data', ptab', thr'[lastOp'.tid].cr3_frame)
                              = Encode(SubSeq(Contents(desc[d].inode),
                                              desc[d].offset + 1, desc[d].offset + m))
                /\ m = 0 => data' = data]_vars
    /\ [][\A fd \in 0..(MaxDesc - 1) :
            (/\ SysWrite(fd, StackTop, 2)
             /\ fd \in DOMAIN procs[Me].files
             /\ desc[procs[Me].files[fd]].inode.dev = 2) =>
              /\ vfs_write(desc[procs[Me].files[fd]].inode) = "WrongType"
              /\ lastOp'.ret = None
              /\ desc' = desc /\ data' = data /\ procs' = procs]_vars

\* the second read through a descriptor has taken the rest of the file, from
\* where the first read ended to the end
C36_Witness ==
    /\ lastOp.op = "read" /\ lastOp.ret = 1 /\ lastOp.arg > 1 /\ halted = "no"
    /\ lastOp.obj \in DOMAIN desc
    /\ desc[lastOp.obj].inode.dev = 2
    /\ desc[lastOp.obj].offset = desc[lastOp.obj].inode.size
    /\ BufferIn(data, ptab, thr[lastOp.tid].cr3_frame) = Encode(<<10>>)

\* the threads that are inside a console read that has not returned
BlockedReaders == {t \in DOMAIN thr : thr[t].pc \in {"read", "read_run"}}

\* C37: at most one thread is blocked on the wait slot of the console at any
\* time, and a recorded waiter is never overwritten by another thread while
\* it is still blocked in read, for any sequence of fork, open and read: every
\* blocked reader is the recorded waiter, the one the next keyboard interrupt
\* puts on the ready queue
C37_OneWaiter ==
    /\ [](Cardinality(BlockedReaders) <= 1)
    /\ [](BlockedReaders \subseteq {waiting})
    /\ [][(waiting' # waiting /\ waiting # None) => waiting \notin BlockedReaders]_vars

\* C38: a thread that has yielded while blocked in a console read holds no
\* lock on which another thread can spin: no descriptor is locked by a thread
\* that is not running, and a read or write of the other process on the
\* descriptor shared after fork returns or blocks by yielding, it never spins
\* with interrupts masked
C38_NoLockWhileBlocked ==
    /\ [](\A d \in DOMAIN desc : desc[d].lock \in {None, current})
    /\ [](halted # "spin")

\* The timer keeps firing while interrupts are on, and a thread that has been
\* given the CPU inside a system call goes on with it: the periodic LAPIC
\* timer and the CPU itself
NextFair ==
    \/ Timer
    \/ Keyboard(10)
    \/ SysFork
    \/ SysOpen(StackTop, ConsolePath, O_RDWR)
    \/ SysRead(0, StackTop, 1)
    \/ ReadRun
    \/ SysExit
    \/ ExitRun

SpecFair ==
    /\ Init /\ [][NextFair]_vars
    /\ WF_vars(Timer) /\ WF_vars(ReadRun) /\ WF_vars(ExitRun)

\* a timer tick that found another thread at the head of the ready queue
Preempted ==
    /\ lastOp.op = "timer" /\ lastOp.switched /\ halted = "no"
    /\ Len(ready) > 1 /\ ready[Len(ready)] = lastOp.tid /\ current = lastOp.picked

NextImage ==
    \/ SysFork
    \/ SysOpen(StackTop, HelloPath, O_RDONLY)
    \/ SysRead(0, StackTop, 2)
    \/ \E k \in 0..MaxBrkPages : SysBrkBy(k)
    \/ SysExecve(StackTop, HiddenPath, StackTop, 1)

SpecImage == Init /\ [][NextImage]_vars

\* C40: a successful execve leaves the pid of the process, its entry in the
\* process table, its table of file descriptors with the offset and the flags
\* of every descriptor, and its next-fd counter unchanged, and sets the
\* current break to the new initial break; of the process only the user
\* mappings, the frame list and the break change, of its thread only the
\* saved entry context
C40_ExecveFrame ==
    [][\A path \in {HiddenPath} :
         (SysExecve(StackTop, path, StackTop, 1) /\ halted' = "no" /\ lastOp'.ret = 0) =>
           \E p \in {Me} : \E t \in {current} :
             /\ lastOp'.pid = p /\ thr'[t].process = p
             /\ DOMAIN procs' = DOMAIN procs /\ nextPid' = nextPid
             /\ \A q \in DOMAIN procs \ {p} : procs'[q] = procs[q]
             /\ procs'[p].files = procs[p].files
             /\ procs'[p].next_fd = procs[p].next_fd
             /\ desc' = desc
             /\ procs'[p].brk_initial = BrkInitialOf(ReadBinary(path).bin)
             /\ procs'[p].brk = procs'[p].brk_initial
             /\ procs'[p] = [procs[p] EXCEPT !.frames = procs'[p].frames,
                                             !.brk = procs'[p].brk,
                                             !.brk_initial = procs'[p].brk_initial]
             /\ thr'[t] = [thr[t] EXCEPT !.pc = thr'[t].pc, !.tf = thr'[t].tf,
                                         !.sp = thr'[t].sp]
             /\ \A u \in DOMAIN thr \ {t, lastOp'.picked} : thr'[u] = thr[u]]_vars

\* a process that had opened a file, read from it and moved its break has
\* exec'ed: descriptor and offset are as before, the break is the image's
C40_Witness ==
    /\ lastOp.op = "execve" /\ lastOp.ret = 0 /\ halted = "no"
    /\ lastOp.pid \in DOMAIN procs
    /\ procs[lastOp.pid].files # NoFiles
    /\ \E fd \in DOMAIN procs[lastOp.pid].files :
          desc[procs[lastOp.pid].files[fd]].offset > 0
    /\ procs[lastOp.pid].brk = BrkInitialOf(Binaries.hidden)
    /\ procs[lastOp.pid].brk_initial = BrkInitialOf(Binaries.hidden)
    /\ Len(procs[lastOp.pid].frames) > Len(Binaries.hidden.headers) + 4

Exited(t) == thr[t].pc \in {"exit", "exit_run"}

C25_ExitParks ==
    [][/\ \A t \in DOMAIN thr :
             Exited(t) =>
                /\ thr'[t].pc \in {"exit", "exit_run"}
                /\ (current = t => thr[t].pc = "exit_run")
                /\ (current = t /\ halted' = "no") => lastOp'.op = "exit_run"
       /\ lastOp'.op \in {"exit", "exit_run"} =>
             LET t == current IN
             /\ halted' = "no"
             /\ Count(ready', t) <= Count(ready, t)
             /\ lastOp'.picked = (IF ready # <<>> THEN Head(ready) ELSE Idle)
             /\ (ready # <<>> => ready' = Tail(ready))
             /\ current' = lastOp'.picked
             /\ (lastOp'.picked # t => lastOp'.switched /\ thr'[t].pc = "exit")]_vars

\* a thread has exited and waits off the CPU and off the ready queue, the
\* thread its yield found at the head of the queue runs in user mode
C25_Witness ==
    /\ lastOp.op = "exit" /\ halted = "no" /\ lastOp.from_queue /\ lastOp.switched
    /\ thr[lastOp.tid].pc = "exit" /\ Count(ready, lastOp.tid) = 0
    /\ current = lastOp.picked /\ current # Idle /\ thr[current].pc = "user"

\* C24: a successful execve never returns to the calling code: the thread's
\* saved context is the userspace-entry trampoline with the new entry point
\* and the user stack top, the current-thread slot was cleared (the yield
\* switches, also to the thread itself), the thread is enqueued exactly once,
\* and the next time it is dispatched it starts in user mode at the entry
\* point of the image
C24_ExecveNoReturn ==
    [][/\ (lastOp'.op = "execve"
              /\ process_execve(MemState, Me, Binaries.init, 1).res = "ok") =>
             LET t == current IN
             /\ halted' = "no" /\ lastOp'.ret = 0
             /\ lastOp'.switched /\ current' = lastOp'.picked
             /\ thr'[t].tf = Binaries.init.entry /\ thr'[t].sp = StackTop
             /\ thr'[t].pc = (IF current' = t THEN "user" ELSE "entry")
             /\ Count(ready', t) + (IF lastOp'.picked = t THEN 1 ELSE 0)
                  = Count(ready, t) + 1
       /\ \A t \in DOMAIN thr :
             thr[t].pc = "entry" =>
                /\ current # t /\ Count(ready, t) >= 1
                /\ thr'[t].tf = thr[t].tf /\ thr'[t].sp = thr[t].sp
                /\ thr'[t].pc = (IF current' = t THEN "user" ELSE "entry")]_vars

\* a thread called execve with another thread ready: that one has the CPU,
\* the caller waits in the queue for its first dispatch at the entry point
C24_Witness ==
    /\ lastOp.op = "execve" /\ lastOp.ret = 0 /\ halted = "no"
    /\ lastOp.switched /\ current = lastOp.picked /\ current # lastOp.tid
    /\ thr[lastOp.tid].pc = "entry" /\ Count(ready, lastOp.tid) = 1
    /\ thr[lastOp.tid].tf = Binaries.init.entry /\ thr[lastOp.tid].sp = StackTop

\* C23: execve on a malformed ELF image (bad magic, not 64-bit, not
\* little-endian, not an executable, or too small a program-header entry
\* size) fails with InvalidHeader, returns a failure value to user space, and
\* leaves the process with all its user mappings cleared (the lower half of
\* the top-level page table unused)
C23_MalformedImage ==
    [][(\E path \in {BadPath, SmallPath, HelloPath} :
          SysExecve(StackTop, path, StackTop, 1)) =>
         /\ halted' = "no"
         /\ lastOp'.ret < 0 /\ thr'[lastOp'.tid].ret = lastOp'.ret
         /\ \A i \in DOMAIN ptab'[Root(procs', lastOp'.pid)] : i >= UserTop]_vars

\* C18: when the PMM has no free frame during a system call that needs
\* memory (brk growth, fork, execve), the call returns -ENOMEM to the caller
\* and the kernel keeps running
C18_NoMemory ==
    [][(\/ SysFork /\ process_fork(MemState, Me, nextPid, nextTid).oom
        \/ \E k \in 0..MaxBrkPages :
              /\ SysBrkBy(k)
              /\ process_brk(MemState, Me, procs[Me].brk_initial + k * PageSize).oom
        \/ /\ SysExecve(StackTop, HiddenPath, StackTop, 1)
           /\ process_execve(MemState, Me, ReadBinary(HiddenPath).bin, 1).st.oom) =>
          (halted' = "no" /\ lastOp'.ret = 0 - ENOMEM)]_vars

\* brk to the byte below the caller's initial break
SysBrkBelow == UserMode /\ SysBrk(procs[Me].brk_initial - 1)

\* the break: processes fork and call brk with addresses above and below the
\* initial break, with null and with words that have bit 63 set
NextBrk ==
    \/ Timer
    \/ SysFork
    \/ \E k \in 0..(MaxBrkPages + 1) : SysBrkBy(k)
    \/ SysBrkBelow
    \/ \E a \in {0, KernelPtr, HighPtr, WordEnd - 1} : SysBrk(a)

SpecBrk == Init /\ [][NextBrk]_vars

\* C21: shrinking the break from old to addr (brk_initial <= addr < old)
\* unmaps every page above the page containing addr up to the page containing
\* old, returns their frames to the PMM and removes them from the process's
\* frame list, keeps the page containing addr mapped, and sets brk_current to
\* addr, which the call returns
C21_BrkShrink ==
    [][(lastOp'.op = "brk"
          /\ lastOp'.arg >= procs[lastOp'.pid].brk_initial
          /\ lastOp'.arg < procs[lastOp'.pid].brk) =>
         LET pid == lastOp'.pid
             addr == lastOp'.arg
             old == procs[pid].brk
             root == Root(procs, pid)
             gone == (PageOf(addr) + 1)..PageOf(old)
             freed == {FrameAt(ptab, root, v) : v \in gone} IN
         /\ halted' = "no"
         /\ lastOp'.ret = addr /\ thr'[lastOp'.tid].ret = addr
         /\ procs'[pid].brk = addr
         /\ \A v \in gone : ~Mapped(ptab', root, v)
         /\ freed \subseteq FreeFrames(bitmap')
         /\ FreeFrames(bitmap') = FreeFrames(bitmap) \cup freed
         /\ Range(procs'[pid].frames) = Range(procs[pid].frames) \ freed
         /\ Len(procs'[pid].frames) = Len(procs[pid].frames) - Cardinality(gone)
         /\ Mapped(ptab', root, PageOf(addr))
         /\ FrameAt(ptab', root, PageOf(addr)) = FrameAt(ptab, root, PageOf(addr))]_vars

\* the break came down by two pages or more
C21_Witness ==
    /\ halted = "no" /\ lastOp.op = "brk"
    /\ lastOp.ret = procs[lastOp.pid].brk_initial
    /\ ~Mapped(ptab, Root(procs, lastOp.pid), PageOf(lastOp.ret) + 2)
    /\ \E f \in FreeFrames(bitmap) : \E g \in Range(procs[lastOp.pid].frames) : g > f

\* C19: brk(addr) with addr = 0, with addr below brk_initial, or with addr
\* having bit 63 set returns the current break and changes neither
\* brk_current nor any mapping nor the process's frame list
C19_BrkNoOp ==
    [][(SysBrkBelow \/ \E a \in {0, KernelPtr, HighPtr, WordEnd - 1} : SysBrk(a)) =>
         /\ halted' = "no"
         /\ lastOp'.ret = procs[Me].brk
         /\ thr'[current].ret = procs[Me].brk
         /\ UNCHANGED <<procs, ptab, bitmap, data>>]_vars

\* the flags of the leaf entry of a mapped page
LeafFlags(pt, root, page) == pt[TableAt(pt, root, page, Levels, 1)][Idx(page, 1)].flags

\* the pages that hold the bytes of [brk_initial, brk)
BrkPages(p) ==
    IF p.brk > p.brk_initial THEN PageOf(p.brk_initial)..PageOf(p.brk - 1) ELSE {}

\* C20: in every reachable state of every process, brk_current >= brk_initial
\* and every page of [brk_initial, brk_current) is mapped present, writable,
\* user-accessible and no-execute, after any sequence of execve, brk growth,
\* brk shrink and fork
C20_BrkMapped ==
    halted = "no" =>
       \A pid \in DOMAIN procs :
          /\ procs[pid].brk >= procs[pid].brk_initial
          /\ \A v \in BrkPages(procs[pid]) :
                /\ Mapped(ptab, Root(procs, pid), v)
                /\ {"P", "W", "U", "NX"} \subseteq LeafFlags(ptab, Root(procs, pid), v)

\* C11: allocate_frame returns the lowest-numbered frame whose bit is clear,
\* and none exactly when every bit of the bitmap is set; so a frame given back
\* is handed out again as soon as no lower frame is free
C11_LowestFree ==
    [][lastOp'.op = "alloc" =>
         IF FreeFrames(bitmap) = {}
         THEN lastFrame' = None /\ bitmap' = bitmap
         ELSE lastFrame' = SetMin(FreeFrames(bitmap))]_vars

\* a frame that was given back is handed out again while a higher frame is
\* free and another higher one is held
C11_Witness ==
    /\ lastOp.op = "alloc"
    /\ lastFrame # None
    /\ \E f \in held : f > lastFrame
    /\ \E g \in FreeFrames(bitmap) : g > lastFrame /\ \E f \in held : f > g

====
